---- MODULE Spec2Model ----
(***************************************************************************)
(* Model of the email-assistant workflow (src/src/workflow/workflow.py)    *)
(* and of the agent nodes it wires together (src/src/agents/*.py).         *)
(*                                                                         *)
(* A Python dict is a TLA+ function whose domain is the set of its keys;   *)
(* `d.get(k)` is Get(d, k, None).  Python None is the value None.  Strings *)
(* are TLA+ strings; strip/lower/upper are tables over the strings the    *)
(* model uses.  A float in [0,1] is kept in hundredths (1.0 is 100).       *)
(* The generator (the LLM call) is a nondeterministic choice of a content  *)
(* value: either text that json.loads rejects, JSON that is not an object, *)
(* or a JSON object (a dict).                                              *)
(***************************************************************************)
EXTENDS Integers, Sequences, FiniteSets, TLC

VARIABLES
    state,      \* the AgentState threaded through the graph
    pc,         \* the node the graph executes next ("END" when the run is over)
    trace,      \* history: the nodes executed so far, in order
    lastData,   \* history: the content the Validator's generator returned last
    verdicts,   \* history: the status of each report the Validator emitted, in order
    upserts,    \* history: the upsert_summary calls made, in order
    store       \* the email_summaries table: a set of rows

vars == <<state, pc, trace, lastData, verdicts, upserts, store>>

-----------------------------------------------------------------------------
(* Python values *)

None == "<None>"

EmptyDict == [k \in {} |-> None]

\* d.get(k, dflt)
Get(d, k, dflt) == IF k \in DOMAIN d THEN d[k] ELSE dflt

\* `s or dflt` for a string-or-None s
StrOr(s, dflt) == IF s = None \/ s = "" THEN dflt ELSE s

\* {**d, k: v}
Put(d, k, v) == [x \in DOMAIN d \cup {k} |-> IF x = k THEN v ELSE d[x]]

\* d.update(u) / {**d, **u}: the keys of u win
Update(d, u) == [x \in DOMAIN d \cup DOMAIN u |-> IF x \in DOMAIN u THEN u[x] ELSE d[x]]

\* x in seq
InSeq(x, s) == \E i \in 1..Len(s) : s[i] = x

\* list(dict.fromkeys(s)): duplicates removed, first occurrence kept
RECURSIVE DedupKeepFirst(_)
DedupKeepFirst(s) ==
    IF s = <<>> THEN <<>>
    ELSE LET front == DedupKeepFirst(SubSeq(s, 1, Len(s) - 1))
             last  == s[Len(s)]
         IN IF InSeq(last, front) THEN front ELSE Append(front, last)

\* str.strip() on the strings of the model
Strip(s) ==
    CASE s = " warm "    -> "warm"
      [] s = " apology " -> "apology"
      [] s = " formal "  -> "formal"
      [] s = "  "        -> ""
      [] s = " d1 "      -> "d1"
      [] s = " Auto "    -> "Auto"
      [] s = " Short "   -> "Short"
      [] OTHER           -> s

\* str.lower() on the strings of the model
Lower(s) ==
    CASE s = "PASS"      -> "pass"
      [] s = "FAIL"      -> "fail"
      [] s = "BLOCKED"   -> "blocked"
      [] s = "HIGH"      -> "high"
      [] s = "High"      -> "high"
      [] s = "Auto"      -> "auto"
      [] s = "AUTO"      -> "auto"
      [] s = "(AUTO)"    -> "(auto)"
      [] s = "None"      -> "none"
      [] s = "NONE"      -> "none"
      [] s = "Follow Up" -> "follow up"
      [] s = "Formal"    -> "formal"
      [] s = "Short"     -> "short"
      [] s = "LONG"      -> "long"
      [] s = "SHORT"     -> "short"
      [] s = "A@X.org"   -> "a@x.org"
      [] s = "Alice"     -> "alice"
      [] s = "Acme"      -> "acme"
      [] s = "CTO"       -> "cto"
      [] OTHER           -> s

\* str.upper() on the strings of the model
Upper(s) ==
    CASE s = "pass"      -> "PASS"
      [] s = "Pass"      -> "PASS"
      [] s = "fail"      -> "FAIL"
      [] s = "blocked"   -> "BLOCKED"
      [] s = "needs_review" -> "NEEDS_REVIEW"
      [] s = "ok"        -> "OK"
      [] OTHER           -> s

-----------------------------------------------------------------------------
(* What a node hands back to the graph: the messages and the update map of *)
(* its AgentResponse, or an exception that leaves the node.                *)

Result(msgs, upd) == [raises |-> FALSE, messages |-> msgs, updates |-> upd]

Raised == [raises |-> TRUE, messages |-> <<>>, updates |-> EmptyDict]

\* json.loads(content) succeeded
JsonOk(content) == content.kind \in {"object", "nonobject"}

\* json.loads(content) succeeded and gave a dict
IsObject(content) == content.kind = "object"

Text == [kind |-> "text"]

NonObject == [kind |-> "nonobject"]

Object(d) == [kind |-> "object", data |-> d]

-----------------------------------------------------------------------------
(* run_query: the initial state of a run *)

ToneSentinels == {"(auto)", "auto", "none"}

run_query(tone, intent, metadata) ==
    LET tone_params ==
            IF tone # None /\ tone # "" /\ Strip(tone) # ""
               /\ Lower(Strip(tone)) \notin ToneSentinels
            THEN [tone_label |-> Strip(tone)]
            ELSE EmptyDict
        \* metadata that is None (or no dict) is given as EmptyDict
        metadata_dict == metadata
        user_id ==
            IF metadata_dict # EmptyDict
            THEN StrOr(Get(metadata_dict, "user_id", None), "default")
            ELSE "default"
        c0 == IF metadata_dict # EmptyDict THEN metadata_dict ELSE EmptyDict
        c1 == IF intent # None /\ intent # "" THEN Put(c0, "intent_override", intent) ELSE c0
        c2 == IF tone # None /\ tone # "" THEN Put(c1, "tone_override", tone) ELSE c1
        messages ==
            (IF metadata_dict # EmptyDict THEN <<"System">> ELSE <<>>)
            \o (IF tone # None /\ tone # "" THEN <<"System">> ELSE <<>>)
            \o (IF intent # None /\ intent # "" THEN <<"System">> ELSE <<>>)
            \o <<"Human">>
    IN [ messages               |-> messages,
         raw_input              |-> "user input",
         requires_clarification |-> FALSE,
         parsed_input           |-> EmptyDict,
         constraints            |-> c2,
         intent                 |-> "",
         intent_confidence      |-> 0,
         intent_source          |-> "",
         tone_source            |-> "",
         user_intent_override   |->
             IF intent # None /\ intent # "" /\ Lower(intent) \notin {"auto", "(auto)"}
             THEN Strip(intent) ELSE "",
         tone_params            |-> tone_params,
         draft                  |-> "",
         personalized_draft     |-> "",
         user_id                |-> user_id,
         user_context           |-> EmptyDict,
         memory_updates         |-> EmptyDict,
         is_valid               |-> TRUE,
         validation_report      |-> EmptyDict,
         retry_count            |-> 0 ]

-----------------------------------------------------------------------------
(* Input Parser *)

ParseFailQuestions == <<"recipient?", "goal?", "constraints?">>

DefaultQuestions == <<"recipient?", "goal?">>

\* mutant: a parse failure does not ask for clarification
ParseFailureUpdates_no_clarification ==
    [ requires_clarification |-> FALSE,
      parsed_input           |-> EmptyDict,
      constraints            |-> EmptyDict,
      validation_report      |->
          [ status    |-> "NEEDS_CLARIFICATION",
            reason    |-> "Input parser could not produce structured parse output.",
            questions |-> ParseFailQuestions ] ]

\* the updates of the except branch
ParseFailureUpdates ==
    [ requires_clarification |-> TRUE,
      parsed_input           |-> EmptyDict,
      constraints            |-> EmptyDict,
      validation_report      |->
          [ status    |-> "NEEDS_CLARIFICATION",
            reason    |-> "Input parser could not produce structured parse output.",
            questions |-> ParseFailQuestions ] ]

InputParsingAgent_execute(st, content) ==
    IF ~IsObject(content)
    THEN \* json.loads raises, or data.keys() raises inside the try
         Result(<<"AI">>, ParseFailureUpdates)
    ELSE LET data         == content.data
             requires     == Get(data, "requires_clarification", FALSE)
             given        == Get(data, "clarification_questions", <<>>)
             parsed_input == Get(data, "parsed_input", EmptyDict)
             constraints  == Get(data, "constraints", EmptyDict)
             questions    == IF given = <<>> THEN DefaultQuestions ELSE given
             updates      ==
                 [ requires_clarification |-> requires,
                   parsed_input           |-> parsed_input,
                   constraints            |-> constraints,
                   validation_report      |->
                       IF ~requires THEN [status |-> "OK"] ELSE EmptyDict ]
         IN IF requires
            THEN Result(<<"AI">>,
                        [updates EXCEPT !.validation_report =
                            [ status    |-> "NEEDS_CLARIFICATION",
                              questions |-> SubSeq(questions, 1,
                                                   IF Len(questions) < 4 THEN Len(questions) ELSE 4) ]])
            ELSE Result(<<"AI">>, updates)

-----------------------------------------------------------------------------
(* Intent Detector *)

INTENT_ALIASES(raw) ==
    CASE raw = "follow up"  -> "follow_up"
      [] raw = "follow-up"  -> "follow_up"
      [] raw = "followup"   -> "follow_up"
      [] raw = "requesting" -> "request"
      [] raw = "asking"     -> "request"
      [] OTHER              -> raw

ValidIntents ==
    {"outreach", "follow_up", "apology", "info", "request", "thank_you", "scheduling", "other"}

Clamp(lo, hi, x) == IF x < lo THEN lo ELSE IF x > hi THEN hi ELSE x

Min(a, b) == IF a < b THEN a ELSE b

\* mutant: "none" is not among the sentinels
UiIntent_none_is_an_intent(st) ==
    LET override == Strip(StrOr(st.user_intent_override, ""))
    IN IF override # "" /\ Lower(override) \notin {"auto", "(auto)"}
       THEN Strip(override) ELSE ""

\* the UI override path: the chosen override, "" when the model path is taken
UiIntent(st) ==
    LET override == Strip(StrOr(st.user_intent_override, ""))
    IN IF override # "" /\ Lower(override) \notin {"auto", "(auto)", "none"}
       THEN Strip(override) ELSE ""

IntentDetectionAgent_execute(st, content) ==
    IF UiIntent(st) # ""
       THEN \* returns before self.agent.ainvoke: content is not read
            Result(<<"AI">>,
                   [ intent            |-> UiIntent(st),
                     intent_confidence |-> 100,
                     intent_source     |-> "ui" ])
       ELSE IF ~JsonOk(content)
       THEN Result(<<"AI">>,
                   [ intent            |-> "other",
                     intent_confidence |-> 0,
                     intent_source     |-> "default" ])
       ELSE IF ~IsObject(content)
       THEN Raised     \* data.get on a list or a string: AttributeError, outside the try
       ELSE LET data       == content.data
                raw_intent == Lower(Strip(StrOr(Get(data, "intent", None), "other")))
                intent     == INTENT_ALIASES(raw_intent)
                \* float(conf) raises for null or a non-number (the key is absent here)
                conf_f     == Clamp(0, 100, IF "confidence" \in DOMAIN data
                                            THEN data.confidence ELSE 0)
                valid      == intent \in ValidIntents
            IN Result(<<"AI">>,
                      [ intent            |-> IF valid THEN intent ELSE "other",
                        intent_confidence |-> IF valid THEN conf_f ELSE Min(conf_f, 40),
                        intent_source     |-> "model" ])

-----------------------------------------------------------------------------
(* Tone Stylist *)

DefaultTone ==
    [ tone_label |-> "neutral", formality |-> 70, warmth |-> 45,
      directness |-> 65, confidence |-> 30 ]

\* clamp_int / clamp_float of d.get(k): the default when the value does not
\* convert (null or a non-number; the key is absent here)
ClampOr(d, k, lo, hi, dflt) == IF k \in DOMAIN d THEN Clamp(lo, hi, d[k]) ELSE dflt

\* mutant: a tone_label already in the state is not looked at
UiToneLabel_ignored(st) == ""

\* the UI override path: the tone_label already in tone_params, "" when the
\* model path is taken
UiToneLabel(st) == Strip(StrOr(Get(st.tone_params, "tone_label", None), ""))

ToneStylistAgent_execute(st, content) ==
    LET ui_tone_params == st.tone_params
        ui_label       == UiToneLabel(st)
    IN IF ui_label # ""
       THEN Result(<<"AI">>, [tone_params |-> ui_tone_params, tone_source |-> "ui"])
       ELSE IF ~JsonOk(content)
       THEN Result(<<"AI">>,
                   [ tone_params       |-> DefaultTone,
                     tone_source       |-> "default",
                     validation_report |->
                         [ status |-> "WARN",
                           reason |-> "ToneStylist returned non-JSON output; applied default tone." ] ])
       ELSE IF ~IsObject(content)
       THEN Raised     \* data.get outside the try
       ELSE LET tone_params == Get(content.data, "tone_params", EmptyDict)
            IN IF tone_params = EmptyDict
               THEN Result(<<"AI">>, [tone_params |-> DefaultTone, tone_source |-> "default"])
               ELSE Result(<<"AI">>,
                      [ tone_params |->
                          Update(tone_params,
                            [ tone_label |-> Lower(Strip(StrOr(Get(tone_params, "tone_label", None), "neutral"))),
                              formality  |-> ClampOr(tone_params, "formality", 0, 100, 70),
                              warmth     |-> ClampOr(tone_params, "warmth", 0, 100, 45),
                              directness |-> ClampOr(tone_params, "directness", 0, 100, 65),
                              confidence |-> ClampOr(tone_params, "confidence", 0, 100, 60) ]),
                        tone_source |-> "model" ])

-----------------------------------------------------------------------------
(* Template store and template plan engine *)

\* Text is a sequence of pieces: a piece is a placeholder token ("{{ask}}")
\* or a stretch of literal text; joining the pieces gives the Python string.
\* (The typographic apostrophes of the source are written ' here.)

\* _default_body, also the body of four of the five fixtures
DefaultBody ==
    << "Subject: ", "{{subject}}", "\n\n", "{{greeting}}", "\n\n", "{{context}}", "\n\n",
       "{{ask}}", "\n\n", "{{closing}}", "\n", "{{signature}}", "\n" >>

RequestBody ==
    << "Subject: ", "{{subject}}", "\n\n", "{{greeting}}", "\n\n", "{{context}}", "\n\n",
       "Would you be able to ", "{{ask}}", "?\n\n", "{{closing}}", "\n", "{{signature}}", "\n" >>

ApologyBody ==
    << "Subject: ", "{{subject}}", "\n\n", "{{greeting}}", "\n\n", "I'm sorry for ",
       "{{context}}", ".\n\n", "{{ask}}", "\n\n", "{{closing}}", "\n", "{{signature}}", "\n" >>

\* the email_templates rows seeded from the fixtures
TemplateRows ==
    { [template_id |-> "follow_up_neutral_v1", intent |-> "follow_up", tone_label |-> "neutral",
       body |-> DefaultBody],
      [template_id |-> "request_formal_v1", intent |-> "request", tone_label |-> "formal",
       body |-> RequestBody],
      [template_id |-> "apology_apologetic_v1", intent |-> "apology", tone_label |-> "apologetic",
       body |-> ApologyBody],
      [template_id |-> "outreach_friendly_v1", intent |-> "outreach", tone_label |-> "friendly",
       body |-> DefaultBody],
      [template_id |-> "other_neutral_v1", intent |-> "other", tone_label |-> "neutral",
       body |-> DefaultBody] }

\* SELECT ... WHERE intent = ? AND tone_label = ? LIMIT 1 (template_id is the
\* primary key; the fixtures hold one row per (intent, tone_label))
TemplateAt(rows, i, t) == {r \in rows : r.intent = i /\ r.tone_label = t}

\* get_best_template returning None (every use of it is `tpl or {}`)
NoTemplate == EmptyDict

\* mutant: ("other", tone) is tried before (intent, "neutral")
get_best_template_other_first(rows, intent, tone_label) ==
    LET candidates == << <<intent, tone_label>>, <<"other", tone_label>>,
                         <<intent, "neutral">>, <<"other", "neutral">> >>
        hits == {n \in 1..4 : TemplateAt(rows, candidates[n][1], candidates[n][2]) # {}}
    IN IF hits = {} THEN NoTemplate
       ELSE LET first == CHOOSE n \in hits : \A m \in hits : n <= m
            IN CHOOSE r \in TemplateAt(rows, candidates[first][1], candidates[first][2]) : TRUE

get_best_template(rows, intent, tone_label) ==
    LET candidates == << <<intent, tone_label>>, <<intent, "neutral">>,
                         <<"other", tone_label>>, <<"other", "neutral">> >>
        hits == {n \in 1..4 : TemplateAt(rows, candidates[n][1], candidates[n][2]) # {}}
    IN IF hits = {} THEN NoTemplate
       ELSE LET first == CHOOSE n \in hits : \A m \in hits : n <= m
            IN CHOOSE r \in TemplateAt(rows, candidates[first][1], candidates[first][2]) : TRUE

\* mutant: "concise" is not in the short row of the table
_length_budget_concise_is_medium(length_hint) ==
    IF length_hint \in {"very_short", "tiny"}
    THEN [target_words |-> 70, max_words |-> 100, max_paragraphs |-> 3, max_bullets |-> 3]
    ELSE IF length_hint \in {"short"}
    THEN [target_words |-> 110, max_words |-> 160, max_paragraphs |-> 4, max_bullets |-> 4]
    ELSE IF length_hint \in {"long", "detailed"}
    THEN [target_words |-> 220, max_words |-> 320, max_paragraphs |-> 6, max_bullets |-> 6]
    ELSE [target_words |-> 160, max_words |-> 240, max_paragraphs |-> 5, max_bullets |-> 5]

_length_budget(length_hint) ==
    IF length_hint \in {"very_short", "tiny"}
    THEN [target_words |-> 70, max_words |-> 100, max_paragraphs |-> 3, max_bullets |-> 3]
    ELSE IF length_hint \in {"short", "concise"}
    THEN [target_words |-> 110, max_words |-> 160, max_paragraphs |-> 4, max_bullets |-> 4]
    ELSE IF length_hint \in {"long", "detailed"}
    THEN [target_words |-> 220, max_words |-> 320, max_paragraphs |-> 6, max_bullets |-> 6]
    ELSE [target_words |-> 160, max_words |-> 240, max_paragraphs |-> 5, max_bullets |-> 5]

\* a primary_request longer than 70 characters, and its first 70
LongRequest ==
    "Please follow up with the recruiter about the status of my application for the role"

LongRequestPrefix ==
    "Please follow up with the recruiter about the status of my application"

\* s[:70] on the strings of the model
Prefix70(s) == IF s = LongRequest THEN LongRequestPrefix ELSE s

\* the pieces of a string of the model
Pieces(s) ==
    CASE s = ""                -> <<>>
      [] s = "see {{ask}}"     -> <<"see ", "{{ask}}">>
      [] s = "re {{subject}}"  -> <<"re ", "{{subject}}">>
      [] OTHER                 -> <<s>>

_suggest_subject(intent, parsed_input) ==
    LET primary == Strip(StrOr(Get(parsed_input, "primary_request", None), ""))
    IN IF primary # "" THEN Pieces(Prefix70(primary))
       ELSE CASE intent = "follow_up" -> <<"Following up">>
              [] intent = "request"   -> <<"Request">>
              [] intent = "apology"   -> <<"Apology">>
              [] intent = "outreach"  -> <<"Introduction">>
              [] intent = "info"      -> <<"Update">>
              [] OTHER                -> <<"Message">>

_suggest_greeting(tone_label, parsed_input) ==
    LET rec  == Get(parsed_input, "recipient", EmptyDict)
        name == Strip(StrOr(Get(rec, "name", None), ""))
    IN IF name # "" THEN <<"Hi ">> \o Pieces(name) \o <<",">>
       ELSE IF tone_label = "formal" THEN <<"Hello,">> ELSE <<"Hi,">>

_suggest_context(parsed_input) ==
    Pieces(Strip(StrOr(Get(parsed_input, "context", None),
                       "I'm reaching out regarding the following.")))

_suggest_ask(intent, parsed_input) ==
    LET ask == Strip(StrOr(Get(parsed_input, "ask", None), ""))
    IN IF ask # "" THEN Pieces(ask)
       ELSE CASE intent = "follow_up" -> <<"Could you share an update when you have a moment?">>
              [] intent = "request"   -> <<"Could you please help with this?">>
              [] intent = "apology"   -> <<"I'll make sure this is resolved promptly.">>
              [] intent = "outreach"  -> <<"Would you be open to a brief chat?">>
              [] OTHER                -> <<"Please let me know your thoughts.">>

_suggest_closing(tone_label) ==
    CASE tone_label = "formal"     -> <<"Thank you for your time.">>
      [] tone_label = "friendly"   -> <<"Thanks so much!">>
      [] tone_label = "apologetic" -> <<"Thank you for your understanding.">>
      [] tone_label = "assertive"  -> <<"Thanks in advance for your help.">>
      [] OTHER                     -> <<"Thanks,">>

_suggest_signature == <<"[Your Name]">>

\* the keys of the placeholders dict, in insertion order
PlaceholderKeys == <<"subject", "greeting", "context", "ask", "closing", "signature">>

\* "{{" + k + "}}"
PlaceholderToken(k) ==
    CASE k = "subject"   -> "{{subject}}"
      [] k = "greeting"  -> "{{greeting}}"
      [] k = "context"   -> "{{context}}"
      [] k = "ask"       -> "{{ask}}"
      [] k = "closing"   -> "{{closing}}"
      [] k = "signature" -> "{{signature}}"

\* out.replace(token, v): one pass, what is put in is not looked at again
RECURSIVE Replace(_, _, _)
Replace(out, token, v) ==
    IF out = <<>> THEN <<>>
    ELSE (IF Head(out) = token THEN v ELSE <<Head(out)>>) \o Replace(Tail(out), token, v)

\* the loop of _render from the n-th key on
RECURSIVE RenderFrom(_, _, _)
RenderFrom(out, values, n) ==
    IF n > Len(PlaceholderKeys) THEN out
    ELSE RenderFrom(Replace(out, PlaceholderToken(PlaceholderKeys[n]), values[PlaceholderKeys[n]]),
                    values, n + 1)

_render(template, values) == RenderFrom(template, values, 1)

\* line 23
plan_tone_label(tone_params) ==
    StrOr(Strip(StrOr(Get(tone_params, "tone_label", None), "neutral")), "neutral")

\* mutant: the tone's default length comes before constraints.length
plan_length_hint_tone_first(constraints, tone_label) ==
    LET given == Lower(Strip(StrOr(Get(constraints, "length", None), "")))
    IN IF tone_label = "concise" THEN "short"
       ELSE IF given # "" THEN given ELSE "medium"

\* lines 27-30
plan_length_hint(constraints, tone_label) ==
    LET given == Lower(Strip(StrOr(Get(constraints, "length", None), "")))
    IN IF given # "" THEN given
       ELSE IF tone_label = "concise" THEN "short" ELSE "medium"

build_plan(rows, intent, tone_params, constraints, parsed_input) ==
    LET tone_label  == plan_tone_label(tone_params)
        length_hint == plan_length_hint(constraints, tone_label)
        length_budget == _length_budget(length_hint)
        tpl         == get_best_template(rows, intent, tone_label)
        body        == IF "body" \in DOMAIN tpl /\ tpl.body # <<>> THEN tpl.body ELSE DefaultBody
        placeholders ==
            [ subject   |-> _suggest_subject(intent, parsed_input),
              greeting  |-> _suggest_greeting(tone_label, parsed_input),
              context   |-> _suggest_context(parsed_input),
              ask       |-> _suggest_ask(intent, parsed_input),
              closing   |-> _suggest_closing(tone_label),
              signature |-> _suggest_signature ]
    IN [ template_id   |-> Get(tpl, "template_id", None),
         tone_label    |-> tone_label,
         length_hint   |-> length_hint,
         length_budget |-> length_budget,
         format        |->
             [ use_subject |-> TRUE,
               use_bullets |-> Get(constraints, "use_bullets", FALSE),
               max_bullets |-> length_budget.max_bullets,
               section_order |-> <<"subject", "greeting", "context", "ask", "closing", "signature">> ],
         placeholders      |-> placeholders,
         template_body     |-> body,
         rendered_skeleton |-> _render(body, placeholders) ]

-----------------------------------------------------------------------------
(* Draft Writer *)

DraftWriterAgent_execute(st, content) ==
    LET intent == Strip(StrOr(st.intent, "other"))
        plan   == build_plan(TemplateRows, intent, st.tone_params, st.constraints, st.parsed_input)
        draft  == Strip(content)
    IN Result(<<"AI">>,
              [ draft         |-> draft,
                template_id   |-> StrOr(plan.template_id, ""),
                template_plan |-> plan ])

-----------------------------------------------------------------------------
(* Personalizer *)

\* SQLiteProfileStore.get_profile: the user_profiles row, {} when there is none
get_profile(user_id) ==
    IF user_id = "" THEN EmptyDict
    ELSE IF user_id = "u1" THEN [name |-> "Pat"]
    ELSE EmptyDict

\* mutant: the text to refine is always state.draft
PersonalizerDraft_draft_only(st) == Strip(StrOr(st.draft, ""))

\* the text the Personalizer takes as the draft to refine
PersonalizerDraft(st) == Strip(StrOr(st.personalized_draft, StrOr(st.draft, "")))

\* the text the Validator takes as the draft to review
ValidatorDraft(st) == StrOr(st.personalized_draft, StrOr(st.draft, ""))

\* the payload sent to the generator as state_json
PersonalizerPayload(st) ==
    [ draft        |-> PersonalizerDraft(st),
      user_profile |-> get_profile(Strip(StrOr(st.user_id, "default"))),
      parsed_input |-> st.parsed_input ]

PersonalizationAgent_execute(st, content) ==
    LET draft   == PersonalizerDraft(st)
        user_id == Strip(StrOr(st.user_id, "default"))
        profile == get_profile(user_id)
    IN IF draft = ""
       THEN Result(<<"AI">>, [personalized_draft |-> "", memory_updates |-> EmptyDict])
       ELSE IF ~JsonOk(content)
       THEN Result(<<"AI">>,
                   [ personalized_draft |-> draft,
                     memory_updates     |-> EmptyDict,
                     user_context       |-> profile ])
       ELSE IF ~IsObject(content)
       THEN Raised     \* data.get outside the try
       ELSE LET data == content.data
                personalized ==
                    StrOr(Strip(StrOr(Get(data, "personalized_draft", None), "")), draft)
            IN Result(<<"AI">>,
                      [ personalized_draft |-> personalized,
                        memory_updates     |-> Get(data, "memory_updates", EmptyDict),
                        user_context       |-> profile ])

-----------------------------------------------------------------------------
(* Review / Validator *)

DefaultRevisionInstructions ==
    "Revise the email to address the issues (clarity, tone alignment, and professionalism). Apply only necessary edits; keep structure intact."

ParseErrorIssue ==
    [ category |-> "other", severity |-> "high", detail |-> "Json Parse Error",
      suggested_fix |-> "Adjust validator prompt to return strict JSON." ]

IsHighSeverity(i) == Lower(StrOr(Get(i, "severity", None), "")) = "high"

\* the report of the parse-failure path
ParseFailureReport ==
    [ status  |-> "FAIL",
      summary |-> "Validator returned non-JSON output.",
      issues  |-> <<ParseErrorIssue>>,
      suggested_edits |-> [apply_minor_fixes |-> FALSE, recommended_tone |-> None],
      revision_instructions |-> "" ]

\* mutant: the high-severity rule also rewrites a BLOCKED status
NormalizedReport_downgrades_blocked(data) ==
    LET raw_status    == Upper(StrOr(Get(data, "status", None), "FAIL"))
        issues        == Get(data, "issues", <<>>)
        high_severity == SelectSeq(issues, IsHighSeverity)
        status        == IF high_severity # <<>> THEN "FAIL" ELSE raw_status
        given         == Strip(StrOr(Get(data, "revision_instructions", None), ""))
        revision_instructions ==
            IF status # "PASS" /\ given = "" THEN DefaultRevisionInstructions ELSE given
    IN [ status  |-> status,
         summary |-> StrOr(Get(data, "summary", None), ""),
         issues  |-> issues,
         suggested_edits |-> Get(data, "suggested_edits", EmptyDict),
         revision_instructions |-> revision_instructions ]

\* "Normalize + evaluate result": the report built from the decoded object
NormalizedReport(data) ==
    LET raw_status    == Upper(StrOr(Get(data, "status", None), "FAIL"))
        issues        == Get(data, "issues", <<>>)
        high_severity == SelectSeq(issues, IsHighSeverity)
        status        == IF raw_status # "BLOCKED" /\ high_severity # <<>>
                         THEN "FAIL" ELSE raw_status
        given         == Strip(StrOr(Get(data, "revision_instructions", None), ""))
        revision_instructions ==
            IF status # "PASS" /\ given = "" THEN DefaultRevisionInstructions ELSE given
    IN [ status  |-> status,
         summary |-> StrOr(Get(data, "summary", None), ""),
         issues  |-> issues,
         suggested_edits |-> Get(data, "suggested_edits", EmptyDict),
         revision_instructions |-> revision_instructions ]

\* mutant: is_valid taken from the status the generator gave, before the
\* high-severity rule
ReviewValidatorAgent_execute_raw_valid(st, content) ==
    IF ~IsObject(content)
    THEN Result(<<"AI">>, [validation_report |-> ParseFailureReport, is_valid |-> FALSE])
    ELSE Result(<<"AI">>,
                [ validation_report |-> NormalizedReport(content.data),
                  is_valid |-> Upper(StrOr(Get(content.data, "status", None), "FAIL")) = "PASS" ])

\* mutant: only json.loads is inside the try; JSON that is no object raises
ReviewValidatorAgent_execute_strict_decode(st, content) ==
    IF ~JsonOk(content)
    THEN Result(<<"AI">>, [validation_report |-> ParseFailureReport, is_valid |-> FALSE])
    ELSE IF ~IsObject(content) THEN Raised
    ELSE LET report == NormalizedReport(content.data)
         IN Result(<<"AI">>, [validation_report |-> report, is_valid |-> report.status = "PASS"])

ReviewValidatorAgent_execute(st, content) ==
    IF ~IsObject(content)
    THEN \* json.loads raises, or data.keys() raises inside the try
         Result(<<"AI">>, [validation_report |-> ParseFailureReport, is_valid |-> FALSE])
    ELSE LET report == NormalizedReport(content.data)
         IN Result(<<"AI">>, [validation_report |-> report, is_valid |-> report.status = "PASS"])

-----------------------------------------------------------------------------
(* Recipient key (src/src/utils/recipient.py) *)

\* _meta_get: the stripped string, None when absent or blank
_meta_get(meta, key) ==
    LET val == Get(meta, key, None)
    IN IF val = None THEN None
       ELSE IF Strip(val) = "" THEN None ELSE Strip(val)

\* _clean of normalize_recipient
_clean(x) == IF x = None THEN None ELSE IF Strip(x) = "" THEN None ELSE Strip(x)

normalize_recipient(parsed_recipient, metadata) ==
    LET FromEither(mkey, pkey) ==
            IF _meta_get(metadata, mkey) # None THEN _meta_get(metadata, mkey)
            ELSE StrOr(Get(parsed_recipient, pkey, None), None)
    IN [ email        |-> _clean(_meta_get(metadata, "recipient_email")),
         name         |-> _clean(FromEither("recipient_name", "name")),
         org          |-> _clean(_meta_get(metadata, "recipient_org")),
         role         |-> _clean(FromEither("recipient_role", "role")),
         relationship |-> _clean(FromEither("recipient_relationship", "relationship")) ]

\* compute_recipient_key returning None
NoKey == <<>>

\* "email:<email>" is <<"email", email>>; "hash:<sha256(name|org|role)[:16]>"
\* is <<"hash", name, org, role>> (the digest is taken to be collision-free)
compute_recipient_key(recipient) ==
    LET email == Lower(Strip(StrOr(Get(recipient, "email", None), "")))
        name  == Lower(Strip(StrOr(Get(recipient, "name", None), "")))
        org   == Lower(Strip(StrOr(Get(recipient, "org", None), "")))
        role  == Lower(Strip(StrOr(Get(recipient, "role", None), "")))
    IN IF email # "" THEN <<"email", email>>
       ELSE IF (name # "" /\ org # "") \/ (name # "" /\ role # "")
       THEN <<"hash", name, org, role>>
       ELSE NoKey

-----------------------------------------------------------------------------
(* Memory store (src/src/memory/sqlite_memory_store.py) *)

\* rows: a set of [user_id, recipient_key, summary], (user_id, recipient_key)
\* the primary key
get_past_summary(rows, user_id, recipient_key) ==
    IF user_id = "" THEN EmptyDict
    ELSE LET hit == {r \in rows : r.user_id = user_id /\ r.recipient_key = recipient_key}
         IN IF hit = {} \/ recipient_key = NoKey THEN EmptyDict
            ELSE (CHOOSE r \in hit : TRUE).summary

\* mutant: a plain INSERT that keeps the row already stored for the key
upsert_summary_insert_only(rows, user_id, recipient_key, summary) ==
    rows \cup {[user_id |-> user_id, recipient_key |-> recipient_key, summary |-> summary]}

\* INSERT ... ON CONFLICT(user_id, recipient_key) DO UPDATE
upsert_summary(rows, user_id, recipient_key, summary) ==
    {r \in rows : ~(r.user_id = user_id /\ r.recipient_key = recipient_key)}
    \cup {[user_id |-> user_id, recipient_key |-> recipient_key, summary |-> summary]}

-----------------------------------------------------------------------------
(* Memory Summarizer *)

\* The node's outcome: the Result, and the upsert_summary call it made
\* (<<>> when it made none).
MemoryOutcome(res, call) == [result |-> res, call |-> call]

\* mutant: an undecodable merge output is stored as an empty summary
MemoryPersist_stores_empty_on_failure(st, content, rows) ==
    LET parsed_recipient == Get(st.parsed_input, "recipient", EmptyDict)
        recipient_key ==
            IF parsed_recipient # EmptyDict
            THEN compute_recipient_key(normalize_recipient(parsed_recipient, st.constraints))
            ELSE NoKey
        summary ==
            IF ~IsObject(content) \/ "summary" \notin DOMAIN content.data
            THEN EmptyDict ELSE content.data.summary
    IN MemoryOutcome(
           IF recipient_key = NoKey THEN Raised ELSE Result(<<"AI">>, EmptyDict),
           <<[user_id |-> st.user_id, recipient_key |-> recipient_key, summary |-> summary]>>)

\* lines 74-127: resolve the key, call the generator, decode, upsert
MemoryPersist(st, content, rows) ==
    LET parsed_recipient == Get(st.parsed_input, "recipient", EmptyDict)
        recipient_key ==
            IF parsed_recipient # EmptyDict
            THEN compute_recipient_key(normalize_recipient(parsed_recipient, st.constraints))
            ELSE NoKey
    IN IF ~IsObject(content) \/ "summary" \notin DOMAIN content.data
       THEN \* json.loads, data.get or the isinstance check raises inside the try
            \* (a "summary" that is not a dict is an absent key here)
            MemoryOutcome(Result(<<"AI">>, EmptyDict), <<>>)
       ELSE MemoryOutcome(
                \* recipient_key is NOT NULL in email_summaries: sqlite3.IntegrityError
                IF recipient_key = NoKey THEN Raised ELSE Result(<<"AI">>, EmptyDict),
                <<[ user_id       |-> st.user_id,
                    recipient_key |-> recipient_key,
                    summary       |-> content.data.summary ]>>)

\* mutant: only a FAIL report skips persistence
MemoryAgent_execute_unless_fail(st, content, rows) ==
    IF Upper(StrOr(Get(st.validation_report, "status", None), "")) = "FAIL"
    THEN MemoryOutcome(Result(<<>>, EmptyDict), <<>>)
    ELSE IF st.user_id = "" THEN MemoryOutcome(Result(<<>>, EmptyDict), <<>>)
    ELSE MemoryPersist(st, content, rows)

\* mutant: the status check is missing
MemoryAgent_execute_any_status(st, content, rows) ==
    IF st.user_id = "" THEN MemoryOutcome(Result(<<>>, EmptyDict), <<>>)
    ELSE MemoryPersist(st, content, rows)

MemoryAgent_execute(st, content, rows) ==
    IF Upper(StrOr(Get(st.validation_report, "status", None), "")) # "PASS"
    THEN MemoryOutcome(Result(<<>>, EmptyDict), <<>>)
    ELSE IF st.user_id = "" THEN MemoryOutcome(Result(<<>>, EmptyDict), <<>>)
    ELSE MemoryPersist(st, content, rows)

-----------------------------------------------------------------------------
(* The graph (EmailWorkflow.__init__).  The model takes the graph as it is  *)
(* wired there.  (__init__ passes memory_store as a fourth argument to     *)
(* PersonalizationAgent, whose signature in personalization_agent.py takes *)
(* llm, logger and profile_store only; the node is modelled from that      *)
(* file's _execute.)                                                       *)

\* mutant: the count is written back without the increment
bump_retry_node_no_increment(st) == [retry_count |-> st.retry_count]

\* mutant: the count goes up by two
bump_retry_node_by_two(st) == [retry_count |-> st.retry_count + 2]

bump_retry_node(st) == [retry_count |-> st.retry_count + 1]

\* mutant: must_avoid is rebuilt from the added items alone
apply_revision_hints_node_forgets_avoid(st) ==
    LET report == st.validation_report
        res    == Get(report, "constraint_resolution", EmptyDict)
    IN IF res = EmptyDict THEN EmptyDict
       ELSE LET constraints == st.constraints
                tone_params == st.tone_params
                drop        == Get(res, "drop_must_include", <<>>)
                Kept(x)     == ~InSeq(x, drop)
                c1 == IF drop # <<>> /\ "must_include" \in DOMAIN constraints
                      THEN Put(constraints, "must_include",
                               SelectSeq(constraints.must_include, Kept))
                      ELSE constraints
                add_avoid   == Get(res, "add_must_avoid", <<>>)
                c2 == IF add_avoid # <<>>
                      THEN Put(c1, "must_avoid", DedupKeepFirst(add_avoid))
                      ELSE c1
                override_tone == Get(res, "override_tone_label", None)
                t1 == IF override_tone # None /\ override_tone # "" /\ Strip(override_tone) # ""
                      THEN Put(tone_params, "tone_label", Strip(override_tone))
                      ELSE tone_params
            IN [constraints |-> c2, tone_params |-> t1]

apply_revision_hints_node(st) ==
    LET report == st.validation_report
        res    == Get(report, "constraint_resolution", EmptyDict)
    IN IF res = EmptyDict THEN EmptyDict
       ELSE LET constraints == st.constraints
                tone_params == st.tone_params
                drop        == Get(res, "drop_must_include", <<>>)
                Kept(x)     == ~InSeq(x, drop)
                c1 == IF drop # <<>> /\ "must_include" \in DOMAIN constraints
                      THEN Put(constraints, "must_include",
                               SelectSeq(constraints.must_include, Kept))
                      ELSE constraints
                add_avoid   == Get(res, "add_must_avoid", <<>>)
                c2 == IF add_avoid # <<>>
                      THEN Put(c1, "must_avoid",
                               DedupKeepFirst(Get(c1, "must_avoid", <<>>) \o add_avoid))
                      ELSE c1
                override_tone == Get(res, "override_tone_label", None)
                t1 == IF override_tone # None /\ override_tone # "" /\ Strip(override_tone) # ""
                      THEN Put(tone_params, "tone_label", Strip(override_tone))
                      ELSE tone_params
            IN [constraints |-> c2, tone_params |-> t1]

\* mutant: the clarification flag is not looked at
input_parser_router_ignores_flag(st) == "intent_detection"

input_parser_router(st) ==
    IF st.requires_clarification THEN "END" ELSE "intent_detection"

\* mutant: every status but PASS enters the repair loop
validation_router_not_pass(st) ==
    LET status == Upper(StrOr(Get(st.validation_report, "status", None), ""))
    IN IF status # "PASS" THEN "bump_retry" ELSE "memory"

validation_router(st) ==
    LET status == Upper(StrOr(Get(st.validation_report, "status", None), ""))
    IN IF status = "FAIL" THEN "bump_retry" ELSE "memory"

\* mutant: the cap is compared with <=
retry_router_inclusive(st) ==
    IF st.retry_count <= 2 THEN "apply_revision_hints" ELSE "memory"

\* mutant: the retry edge goes straight to the Draft Writer
retry_router_skips_hints(st) ==
    IF st.retry_count < 2 THEN "draft_writer" ELSE "memory"

\* mutant: the cap is one retry
retry_router_cap_one(st) ==
    IF st.retry_count < 1 THEN "apply_revision_hints" ELSE "memory"

\* mutant: the cap is missing, a FAIL always goes back to the Draft Writer
retry_router_no_cap(st) == "apply_revision_hints"

retry_router(st) ==
    IF st.retry_count < 2 THEN "apply_revision_hints" ELSE "memory"

\* mutant: the Draft Writer's edge goes straight to the Validator
NextNode_skips_personalizer(node, st) ==
    CASE node = "input_parser"         -> input_parser_router(st)
      [] node = "intent_detection"     -> "tone_stylist"
      [] node = "tone_stylist"         -> "draft_writer"
      [] node = "draft_writer"         -> "review_validator"
      [] node = "personalization"      -> "review_validator"
      [] node = "review_validator"     -> validation_router(st)
      [] node = "bump_retry"           -> retry_router(st)
      [] node = "apply_revision_hints" -> "draft_writer"
      [] node = "memory"               -> "END"

\* mutant: the memory node has an edge back to the Validator
NextNode_memory_to_validator(node, st) ==
    CASE node = "input_parser"         -> input_parser_router(st)
      [] node = "intent_detection"     -> "tone_stylist"
      [] node = "tone_stylist"         -> "draft_writer"
      [] node = "draft_writer"         -> "personalization"
      [] node = "personalization"      -> "review_validator"
      [] node = "review_validator"     -> validation_router(st)
      [] node = "bump_retry"           -> retry_router(st)
      [] node = "apply_revision_hints" -> "draft_writer"
      [] node = "memory"               -> "review_validator"

\* the edges: the node that follows `node` once its update is merged into st
NextNode(node, st) ==
    CASE node = "input_parser"         -> input_parser_router(st)
      [] node = "intent_detection"     -> "tone_stylist"
      [] node = "tone_stylist"         -> "draft_writer"
      [] node = "draft_writer"         -> "personalization"
      [] node = "personalization"      -> "review_validator"
      [] node = "review_validator"     -> validation_router(st)
      [] node = "bump_retry"           -> retry_router(st)
      [] node = "apply_revision_hints" -> "draft_writer"
      [] node = "memory"               -> "END"

\* the channel reducers: add_messages appends, every other key is overwritten
MergeUpdate(st, messages, updates) ==
    [Update(st, updates) EXCEPT !.messages = st.messages \o messages]

\* app.ainvoke(initial_state, config={"recursion_limit": 50})
recursion_limit == 50

\* One step of the graph walk: `node` ran and gave `res`.
Step(node, res) ==
    /\ pc = node
    /\ Len(trace) < recursion_limit
    /\ trace' = Append(trace, node)
    /\ IF res.raises
       THEN state' = state /\ pc' = "RAISED"
       ELSE /\ state' = MergeUpdate(state, res.messages, res.updates)
            /\ pc' = NextNode(node, state')

-----------------------------------------------------------------------------
(* The inputs of a run and the contents the generator may return *)

RunTones == {None, "Auto", " formal "}

RunIntents == {None, "auto", " apology "}

RunMetadata == {EmptyDict, [user_id |-> "u1", recipient_email |-> "A@X.org"]}

Recipient1 ==
    [name |-> "Alice", role |-> None, relationship |-> None, org |-> "Acme", email |-> None]

Recipient2 ==
    [name |-> "Alice", role |-> "CTO", relationship |-> None, org |-> None, email |-> None]

Summary0 ==
    [relationship |-> "Recruiter", history |-> <<"Initial outreach sent.">>,
     last_intent |-> "outreach", last_tone |-> "friendly"]

Summary1 ==
    [relationship |-> "Recruiter", history |-> <<"Initial outreach sent.", "Follow-up sent.">>,
     last_intent |-> "follow_up", last_tone |-> "professional"]

InitialStores ==
    { {}, {[user_id |-> "u1", recipient_key |-> <<"email", "a@x.org">>, summary |-> Summary0]} }

InputParserContents ==
    { Text, NonObject,
      Object([requires_clarification |-> TRUE]),
      Object([ requires_clarification |-> FALSE,
               parsed_input |-> [primary_request |-> "ask", recipient |-> Recipient1],
               constraints  |-> [must_include |-> <<"a", "b">>, must_avoid |-> <<"c">>] ]),
      Object([ parsed_input |-> [primary_request |-> "ask", recipient |-> Recipient2],
               constraints  |-> [length |-> "SHORT", must_include |-> <<"a">>] ]),
      Object([parsed_input |-> [primary_request |-> "ask"]]) }

IntentContents ==
    { Text, NonObject,
      Object([intent |-> "Follow Up", confidence |-> 150]),
      Object([intent |-> "bogus", confidence |-> 90]),
      Object([intent |-> "asking", confidence |-> -5]),
      Object([intent |-> "apology"]) }

ToneContents ==
    { Text, NonObject,
      Object([tone_params |-> [tone_label |-> "Formal", formality |-> 120, warmth |-> -5]]),
      Object([tone_params |-> [directness |-> 30, confidence |-> 250]]),
      Object(EmptyDict) }

DraftContents == {"", " d1 ", "d2"}

PersonalizerContents ==
    { Text, NonObject,
      Object([personalized_draft |-> "p1", memory_updates |-> [signature |-> "Pat"]]),
      Object([personalized_draft |-> "  "]) }

HighIssue == [category |-> "tone", severity |-> "High", detail |-> "rude"]

Resolution1 ==
    [drop_must_include |-> <<"a">>, add_must_avoid |-> <<"c", "d">>, override_tone_label |-> " warm "]

Resolution2 == [add_must_avoid |-> <<"d", "d">>]

ValidatorContents ==
    { Text,
      Object([status |-> "PASS", summary |-> "ok"]),
      Object([status |-> "pass", issues |-> <<HighIssue>>]),
      Object([status |-> "FAIL", revision_instructions |-> "fix it",
              constraint_resolution |-> Resolution1]),
      Object([status |-> "FAIL", constraint_resolution |-> Resolution2]),
      Object([status |-> "BLOCKED", issues |-> <<HighIssue>>, user_message |-> "no",
              constraint_resolution |-> Resolution1]),
      Object([status |-> "needs_review"]),
      Object(EmptyDict) }

MemoryContents == {Text, Object(EmptyDict), Object([summary |-> Summary1])}

NoData == [kind |-> "none"]

-----------------------------------------------------------------------------
(* The run *)

Init ==
    /\ \E tone \in RunTones, intent \in RunIntents, metadata \in RunMetadata :
           state = run_query(tone, intent, metadata)
    /\ pc = "input_parser"
    /\ trace = <<>>
    /\ lastData = NoData
    /\ verdicts = <<>>
    /\ upserts = <<>>
    /\ store \in InitialStores

input_parser_node ==
    /\ \E content \in InputParserContents :
           Step("input_parser", InputParsingAgent_execute(state, content))
    /\ UNCHANGED <<lastData, verdicts, upserts, store>>

intent_detection_node ==
    /\ \E content \in IntentContents :
           Step("intent_detection", IntentDetectionAgent_execute(state, content))
    /\ UNCHANGED <<lastData, verdicts, upserts, store>>

tone_stylist_node ==
    /\ \E content \in ToneContents :
           Step("tone_stylist", ToneStylistAgent_execute(state, content))
    /\ UNCHANGED <<lastData, verdicts, upserts, store>>

draft_writer_node ==
    /\ \E content \in DraftContents :
           Step("draft_writer", DraftWriterAgent_execute(state, content))
    /\ UNCHANGED <<lastData, verdicts, upserts, store>>

personalization_node ==
    /\ \E content \in PersonalizerContents :
           Step("personalization", PersonalizationAgent_execute(state, content))
    /\ UNCHANGED <<lastData, verdicts, upserts, store>>

review_validator_node ==
    /\ \E content \in ValidatorContents :
           LET res == ReviewValidatorAgent_execute(state, content)
           IN /\ Step("review_validator", res)
              /\ lastData' = content
              /\ verdicts' = Append(verdicts, res.updates.validation_report.status)
    /\ UNCHANGED <<upserts, store>>

bump_retry ==
    /\ Step("bump_retry", Result(<<>>, bump_retry_node(state)))
    /\ UNCHANGED <<lastData, verdicts, upserts, store>>

apply_revision_hints ==
    /\ Step("apply_revision_hints", Result(<<>>, apply_revision_hints_node(state)))
    /\ UNCHANGED <<lastData, verdicts, upserts, store>>

memory_node ==
    /\ \E content \in MemoryContents :
           LET out == MemoryAgent_execute(state, content, store)
           IN /\ Step("memory", out.result)
              /\ upserts' = upserts \o out.call
              /\ store' = IF out.call # <<>> /\ ~out.result.raises
                          THEN upsert_summary(store, out.call[1].user_id,
                                              out.call[1].recipient_key, out.call[1].summary)
                          ELSE store
    /\ UNCHANGED <<lastData, verdicts>>

Next ==
    \/ input_parser_node
    \/ intent_detection_node
    \/ tone_stylist_node
    \/ draft_writer_node
    \/ personalization_node
    \/ review_validator_node
    \/ bump_retry
    \/ apply_revision_hints
    \/ memory_node

Spec == Init /\ [][Next]_vars

-----------------------------------------------------------------------------
(* Properties of the run *)

Last(s) == s[Len(s)]

\* how many times `node` has executed
Count(node) == Cardinality({i \in 1..Len(trace) : trace[i] = node})

\* the Draft Writer executions entered through bump_retry -> apply_revision_hints
RepairReentries ==
    Cardinality({i \in 3..Len(trace) :
                    /\ trace[i] = "draft_writer"
                    /\ trace[i - 1] = "apply_revision_hints"
                    /\ trace[i - 2] = "bump_retry"})

\* the position in trace of the k-th Validator execution
ValidatorPosition(k) ==
    CHOOSE p \in 1..Len(trace) :
        /\ trace[p] = "review_validator"
        /\ Cardinality({j \in 1..p : trace[j] = "review_validator"}) = k

\* the verdict of the Validator execution at position p of trace
VerdictAt(p) == verdicts[Cardinality({j \in 1..p : trace[j] = "review_validator"})]

ReportStatus == Get(state.validation_report, "status", None)

ValidatorStatuses == {"PASS", "FAIL", "BLOCKED"}

\* C1: in every reachable state retry_count is 0, 1 or 2, the Draft Writer
\* has been re-entered through the repair loop at most 2 times, and the
\* number of re-entries does not exceed retry_count.
C1_RetryCountBoundsReentries ==
    /\ state.retry_count \in {0, 1, 2}
    /\ RepairReentries <= 2
    /\ RepairReentries <= state.retry_count

C1_Witness == RepairReentries = 1 /\ state.retry_count = 2 /\ pc = "END"

TwoFails == Len(verdicts) >= 2 /\ verdicts[1] = "FAIL" /\ verdicts[2] = "FAIL"

\* C2: from retry_count = 0, two consecutive FAIL verdicts bring retry_count
\* to 2 (through bump_retry); then the loop is left: there is no third
\* Validator or Draft Writer execution, and the run goes to the memory node
\* and on to END with the report of the second verdict still in the state.
C2_TwoFailsExitLoop ==
    TwoFails =>
        /\ Len(verdicts) = 2
        /\ Count("draft_writer") = 2
        /\ state.validation_report =
               ReviewValidatorAgent_execute(state, lastData).updates.validation_report
        /\ \/ pc = "bump_retry" /\ state.retry_count = 1
           \/ pc = "memory" /\ state.retry_count = 2 /\ Last(trace) = "bump_retry"
           \/ pc = "END" /\ state.retry_count = 2 /\ Last(trace) = "memory"

C2_Witness == TwoFails /\ pc = "END"

\* the Draft Writer is about to be re-entered from apply_revision_hints
ReentryPending ==
    pc = "draft_writer" /\ trace # <<>> /\ Last(trace) = "apply_revision_hints"

\* the constraint_resolution of the generator output behind the last verdict
LastResolution ==
    IF lastData.kind = "object"
    THEN Get(lastData.data, "constraint_resolution", EmptyDict)
    ELSE EmptyDict

\* C3: when the Validator's generator returned FAIL with a non-empty
\* constraint_resolution and the Draft Writer is re-entered, the state it
\* reads has the drop_must_include items removed from must_include, the
\* add_must_avoid items in must_avoid, and tone_label equal to the override.
C3_HintsAppliedBeforeRedraft ==
    (ReentryPending /\ Last(verdicts) = "FAIL" /\ LastResolution # EmptyDict) =>
        LET drop     == Get(LastResolution, "drop_must_include", <<>>)
            add      == Get(LastResolution, "add_must_avoid", <<>>)
            override == Get(LastResolution, "override_tone_label", None)
        IN /\ \A i \in 1..Len(drop) :
                  ~InSeq(drop[i], Get(state.constraints, "must_include", <<>>))
           /\ \A i \in 1..Len(add) :
                  InSeq(add[i], Get(state.constraints, "must_avoid", <<>>))
           /\ (override # None /\ Strip(override) # "") =>
                  Get(state.tone_params, "tone_label", None) = Strip(override)

\* C4: a Draft Writer execution that follows a Validator execution is
\* preceded by exactly review_validator (verdict FAIL), bump_retry,
\* apply_revision_hints, in that order; apply_revision_hints executes only
\* there, once, and is followed by the Draft Writer.
C4_HintsOncePerRedraft ==
    /\ \A i \in 1..Len(trace) :
           (trace[i] = "draft_writer" /\ \E j \in 1..(i - 1) : trace[j] = "review_validator")
           => /\ i >= 4
              /\ trace[i - 1] = "apply_revision_hints"
              /\ trace[i - 2] = "bump_retry"
              /\ trace[i - 3] = "review_validator"
              /\ VerdictAt(i - 3) = "FAIL"
    /\ \A i \in 1..Len(trace) :
           trace[i] = "apply_revision_hints"
           => /\ i >= 3
              /\ trace[i - 1] = "bump_retry"
              /\ trace[i - 2] = "review_validator"
              /\ IF i < Len(trace) THEN trace[i + 1] = "draft_writer" ELSE pc = "draft_writer"
    /\ (pc = "draft_writer" /\ InSeq("review_validator", trace))
           => Last(trace) = "apply_revision_hints"

C4_Witness == Count("draft_writer") = 2 /\ Count("apply_revision_hints") = 1 /\ pc = "END"

\* C5: a BLOCKED verdict is the last verdict of the run: after it
\* retry_count keeps the value it had, and bump_retry, apply_revision_hints,
\* the Draft Writer, the Personalizer and the Validator do not execute again.
C5_BlockedEndsRetries ==
    \A k \in 1..Len(verdicts) :
        verdicts[k] = "BLOCKED" =>
            /\ k = Len(verdicts)
            /\ pc \in {"memory", "END"}
            /\ LET p == ValidatorPosition(k)
               IN /\ \A j \in (p + 1)..Len(trace) : trace[j] = "memory"
                  /\ state.retry_count = Cardinality({j \in 1..p : trace[j] = "bump_retry"})

C5_Witness ==
    verdicts # <<>> /\ Last(verdicts) = "BLOCKED" /\ state.retry_count = 1 /\ pc = "END"

LastVerdictBlocked == verdicts # <<>> /\ Last(verdicts) = "BLOCKED"

\* C6 as stated: after a BLOCKED verdict the step that follows the Validator
\* is END, and the memory node is not entered.
C6_BlockedRoutesToEnd ==
    LastVerdictBlocked => (pc = "END" /\ Last(trace) = "review_validator")

\* C6 as amended: after a BLOCKED verdict the step that follows the
\* Validator is the memory node, which makes no upsert_summary call and
\* leaves the report as it is; END follows.
C6_BlockedPassesThroughMemory ==
    LastVerdictBlocked =>
        /\ upserts = <<>>
        /\ ReportStatus = "BLOCKED"
        /\ \/ pc = "memory" /\ Last(trace) = "review_validator"
           \/ /\ pc = "END"
              /\ Last(trace) = "memory"
              /\ trace[Len(trace) - 1] = "review_validator"

C6_Witness == LastVerdictBlocked /\ pc = "END"

\* C7: upsert_summary is called only by the memory node, and only when
\* validation_report.status is PASS and user_id is non-empty; a run that
\* ends with another status has made no upsert_summary call.
C7_UpsertOnlyOnPass ==
    /\ upserts # <<>> =>
           /\ Len(upserts) = 1
           /\ Last(trace) = "memory"
           /\ ReportStatus = "PASS"
           /\ state.user_id # ""
    /\ (pc \in {"END", "RAISED"} /\ ReportStatus # "PASS") => upserts = <<>>

C7_Witness == upserts # <<>> /\ pc = "END"

\* C8: once the Input Parser has set requires_clarification, the run is at
\* END, no other node has executed, and draft and personalized_draft are empty.
C8_ClarificationEndsRun ==
    state.requires_clarification =>
        /\ pc = "END"
        /\ trace = <<"input_parser">>
        /\ state.draft = ""
        /\ state.personalized_draft = ""

C8_Witness == state.requires_clarification /\ pc = "END"

\* C9 as stated: in every reachable state is_valid is true iff
\* validation_report.status is PASS.
C9_IsValidIffPass == state.is_valid <=> (ReportStatus = "PASS")

\* C9 as amended: once the Validator has executed, is_valid is true iff
\* validation_report.status is PASS; before that is_valid has its initial
\* value, true.
C9_IsValidIffPassAfterValidator ==
    IF verdicts = <<>>
    THEN state.is_valid
    ELSE state.is_valid <=> (ReportStatus = "PASS")

C9_Witness == Len(verdicts) = 2 /\ verdicts[1] = "FAIL" /\ state.is_valid /\ pc = "END"

\* C10: a non-empty validation_report has a status among PASS, FAIL,
\* BLOCKED, and so has every report the Validator emits.
C10_StatusClosed ==
    /\ state.validation_report # EmptyDict => ReportStatus \in ValidatorStatuses
    /\ \A k \in 1..Len(verdicts) : verdicts[k] \in ValidatorStatuses

\* the nodes whose only exception in the model comes from decoding the
\* generator's output (the memory node's comes from the store)
DecodingNodes ==
    {"input_parser", "intent_detection", "tone_stylist", "draft_writer",
     "personalization", "review_validator"}

\* C14: no malformed generator output aborts the run: the Input Parser, the
\* Intent Detector, the Tone Stylist, the Draft Writer, the Personalizer and
\* the Validator never leave the run with an exception, whatever their
\* generator returned (text that is not JSON, JSON that is not an object).
C14_MalformedOutputNeverAborts ==
    pc = "RAISED" => Last(trace) \notin DecodingNodes

\* the nodes of the graph
Nodes ==
    {"input_parser", "intent_detection", "tone_stylist", "draft_writer", "personalization",
     "review_validator", "bump_retry", "apply_revision_hints", "memory"}

MemoryIsTerminal ==
    \A i \in 1..Len(trace) : trace[i] = "memory" => i = Len(trace) /\ pc \in {"END", "RAISED"}

\* C16: upsert_summary is called at most once in a run, by the memory node,
\* after the Validator's last verdict, and no node executes after the memory
\* node; every step of another node leaves the store and the list of
\* upsert_summary calls as they are, so a run stopped before the memory node
\* has written nothing.
C16_MemoryWriteOnlyAtTerminalStep ==
    /\ [](/\ Len(upserts) <= 1
          /\ MemoryIsTerminal
          /\ upserts # <<>> => (Last(trace) = "memory" /\ verdicts # <<>>))
    /\ [][pc # "memory" => (store' = store /\ upserts' = upserts)]_vars

C16_Witness ==
    /\ pc = "END"
    /\ Len(upserts) = 1
    /\ Len(verdicts) = 2
    /\ \E r \in store : r.summary = upserts[1].summary /\ r.recipient_key = upserts[1].recipient_key

\* the FAIL verdicts issued so far
FailVerdicts == Cardinality({k \in 1..Len(verdicts) : verdicts[k] = "FAIL"})

\* C22: retry_count starts at 0; the only step that changes it is bump_retry,
\* which follows a FAIL verdict and adds exactly 1; so when the Draft Writer
\* or the memory node is about to start, retry_count is the number of FAIL
\* verdicts issued so far.
C22_RetryCountCountsFails ==
    /\ [](/\ trace = <<>> => state.retry_count = 0
          /\ pc \in {"draft_writer", "memory"} => state.retry_count = FailVerdicts)
    /\ [][state'.retry_count # state.retry_count =>
              /\ pc = "bump_retry"
              /\ Last(verdicts) = "FAIL"
              /\ state'.retry_count = state.retry_count + 1]_vars

C22_Witness == pc = "memory" /\ FailVerdicts = 1 /\ Last(verdicts) = "PASS" /\ state.retry_count = 1

\* C27: in a repair iteration (retry_count is at least 1) the text the
\* Personalizer is about to refine is the draft the Draft Writer has just
\* produced, not the personalized_draft of the iteration before.
C27_RepairRefinesFreshDraft ==
    (pc = "personalization" /\ state.retry_count >= 1 /\ Last(trace) = "draft_writer")
        => PersonalizerDraft(state) = state.draft

\* C28: the keys run() placed in constraints are still there once the Input
\* Parser has run, and so when the memory node runs.  (user_intent_override
\* is set exactly when run() was given an intent override other than a
\* sentinel, and then run() placed intent_override; user_id is "u1" exactly
\* when run() was given the metadata carrying recipient_email "A@X.org".)
C28_OverrideKeysSurviveParser ==
    (trace # <<>>) =>
        /\ state.user_intent_override # "" => "intent_override" \in DOMAIN state.constraints
        /\ state.user_id = "u1" => Get(state.constraints, "recipient_email", None) = "A@X.org"

\* C29: at the end of a run in which the Validator executed, the status of
\* validation_report is FAIL if and only if retry_count is 2, and a run that
\* ends with PASS or BLOCKED has retry_count 0 or 1.
C29_FailAtEndIffTwoRetries ==
    (pc = "END" /\ Count("review_validator") >= 1) =>
        /\ ReportStatus = "FAIL" <=> state.retry_count = 2
        /\ ReportStatus \in {"PASS", "BLOCKED"} => state.retry_count \in {0, 1}

\* a run that ended on its second FAIL, and so with retry_count 2
C29_Witness ==
    /\ pc = "END"
    /\ Count("review_validator") = 2
    /\ ReportStatus = "FAIL"
    /\ state.retry_count = 2

\* the positions of the trace at which `node` executed
Positions(node) == {i \in 1..Len(trace) : trace[i] = node}

\* C30: a run is a sequential walk (one node after the other, the next one
\* being a single node); the first Draft Writer execution comes after Input
\* Parser, Intent Detector and Tone Stylist, in that order; every Validator
\* execution comes right after a Personalizer execution, which comes right
\* after a Draft Writer execution; Input Parser, Intent Detector, Tone
\* Stylist and the memory node execute at most once.
C30_SequentialWalk ==
    /\ pc \in Nodes \cup {"END", "RAISED"}
    /\ Positions("draft_writer") # {} =>
           LET first == CHOOSE i \in Positions("draft_writer") :
                            \A j \in Positions("draft_writer") : i <= j
           IN /\ first = 4
              /\ SubSeq(trace, 1, 3) = <<"input_parser", "intent_detection", "tone_stylist">>
    /\ \A i \in Positions("review_validator") :
           /\ i >= 3
           /\ trace[i - 1] = "personalization"
           /\ trace[i - 2] = "draft_writer"
    /\ \A node \in {"input_parser", "intent_detection", "tone_stylist", "memory"} :
           Count(node) <= 1

\* a finished run with a repair iteration: two Validator executions
C30_Witness ==
    /\ pc = "END"
    /\ Count("review_validator") = 2
    /\ Count("draft_writer") = 2
    /\ Count("memory") = 1

-----------------------------------------------------------------------------
(* The Validator on its own: one _execute call on a generator output drawn  *)
(* from a wider set than the run uses.  lastData is the generator output,   *)
(* state the state the node reads, pc "review_validator" before the call    *)
(* and "returned" (or "RAISED") after it.                                   *)

RawStatuses ==
    {None, "PASS", "pass", "Pass", "FAIL", "fail", "BLOCKED", "blocked", "needs_review"}

LowIssue == [category |-> "clarity", severity |-> "low", detail |-> "wordy"]

UpperHighIssue == [category |-> "safety", severity |-> "HIGH", detail |-> "threat"]

LowerHighIssue == [category |-> "tone", severity |-> "high", detail |-> "rude"]

UnratedIssue == [category |-> "other", detail |-> "no severity given"]

IssueLists ==
    { <<>>, <<LowIssue>>, <<UnratedIssue>>, <<HighIssue>>, <<LowIssue, UpperHighIssue>>,
      <<LowerHighIssue, LowIssue>> }

RevisionTexts == {None, "", "  ", "fix it"}

ValidatorInputs ==
    {Text, NonObject, Object(EmptyDict)}
    \cup { Object([status |-> s, issues |-> i, revision_instructions |-> r]) :
              s \in RawStatuses, i \in IssueLists, r \in RevisionTexts }

\* the state the Validator reads: a first pass that has a personalized draft
ValidatorEntryState ==
    [run_query(None, None, EmptyDict) EXCEPT !.draft = "d2", !.personalized_draft = "p1"]

ValidatorInit ==
    /\ state = ValidatorEntryState
    /\ pc = "review_validator"
    /\ trace = <<>>
    /\ lastData \in ValidatorInputs
    /\ verdicts = <<>>
    /\ upserts = <<>>
    /\ store = {}

\* ReviewValidatorAgent.run on the generator output lastData
validator_run ==
    /\ pc = "review_validator"
    /\ LET res == ReviewValidatorAgent_execute(state, lastData)
       IN IF res.raises
          THEN /\ pc' = "RAISED"
               /\ UNCHANGED <<state, verdicts>>
          ELSE /\ pc' = "returned"
               /\ state' = MergeUpdate(state, res.messages, res.updates)
               /\ verdicts' = Append(verdicts, res.updates.validation_report.status)
    /\ trace' = Append(trace, "review_validator")
    /\ UNCHANGED <<lastData, upserts, store>>

ValidatorNext == validator_run

ValidatorSpec == ValidatorInit /\ [][ValidatorNext]_vars

\* the Validator call is over
ValidatorDone == pc \in {"returned", "RAISED"} /\ trace = <<"review_validator">>

\* the spellings of "high" the generator may use
HighSpellings == {"high", "High", "HIGH"}

\* the decoded object has an issue of severity "high" in some letter case
HasHighIssue(data) ==
    LET issues == Get(data, "issues", <<>>)
    IN \E n \in 1..Len(issues) :
           "severity" \in DOMAIN issues[n] /\ issues[n].severity \in HighSpellings

\* the status the generator gave, in upper case; FAIL when it gave none
RawStatus(data) ==
    LET s == Get(data, "status", None)
    IN CASE s \in {"PASS", "pass", "Pass"} -> "PASS"
         [] s \in {"FAIL", "fail", None}   -> "FAIL"
         [] s \in {"BLOCKED", "blocked"}   -> "BLOCKED"
         [] OTHER                          -> "NEEDS_REVIEW"

\* C11: for every generator output of the Validator that decodes to an
\* object: with a high-severity issue (any letter case) the emitted status is
\* FAIL when the raw status was not BLOCKED and BLOCKED when it was; with no
\* high-severity issue the emitted status is the raw status.
C11_HighSeverityForcesFail ==
    (ValidatorDone /\ IsObject(lastData)) =>
        /\ pc = "returned"
        /\ ReportStatus =
              IF HasHighIssue(lastData.data) /\ RawStatus(lastData.data) # "BLOCKED"
              THEN "FAIL"
              ELSE RawStatus(lastData.data)

C11_Witness ==
    /\ ValidatorDone
    /\ IsObject(lastData)
    /\ HasHighIssue(lastData.data)
    /\ Get(lastData.data, "status", None) = "pass"
    /\ ReportStatus = "FAIL"

\* C12: when the Validator's generator output does not decode to an object,
\* the Validator returns (it does not raise) a report with status FAIL, a
\* non-empty issues list and the keys issues, suggested_edits and
\* revision_instructions, and is_valid is false.
C12_ParseFailureFailsSoft ==
    (ValidatorDone /\ ~IsObject(lastData)) =>
        /\ pc = "returned"
        /\ ReportStatus = "FAIL"
        /\ ~state.is_valid
        /\ {"issues", "suggested_edits", "revision_instructions"}
               \subseteq DOMAIN state.validation_report
        /\ state.validation_report.issues # <<>>

C12_Witness == ValidatorDone /\ lastData = Text /\ ReportStatus = "FAIL"

\* C13: every report the Validator emits with status FAIL has a non-empty
\* revision_instructions, whether the generator output decoded or not.
C13_FailHasRevisionInstructions ==
    (ValidatorDone /\ pc = "returned" /\ ReportStatus = "FAIL") =>
        /\ "revision_instructions" \in DOMAIN state.validation_report
        /\ state.validation_report.revision_instructions # ""

-----------------------------------------------------------------------------
(* The Memory Summarizer on its own: one _execute call at the end of a run. *)
(* state is the state the node reads, lastData the merge output of its      *)
(* generator, store the email_summaries table; pc is "memory" before the    *)
(* call and "returned" (or "RAISED") after it.                              *)

\* parsed_input.recipient as the Input Parser's generator may give it
Recipient3 ==
    [name |-> None, role |-> "CTO", relationship |-> None, org |-> None, email |-> "b@y.org"]

ParsedRecipients == {EmptyDict, Recipient1, Recipient2, Recipient3}

\* state.constraints: the metadata keys normalize_recipient reads
RecipientMetadata ==
    { EmptyDict,
      [recipient_email |-> "A@X.org"],
      [recipient_org |-> "Acme"],
      [recipient_org |-> "Acme", recipient_role |-> "CTO"] }

MemoryStatuses == {"PASS", "pass", "FAIL", "BLOCKED"}

MemoryUserIds == {"default", "u1"}

MemoryStores ==
    { {},
      {[user_id |-> "u1", recipient_key |-> <<"email", "a@x.org">>, summary |-> Summary0]},
      {[user_id |-> "default", recipient_key |-> <<"hash", "alice", "", "cto">>,
        summary |-> Summary0]} }

MemoryInputs == {Text, NonObject, Object(EmptyDict), Object([summary |-> Summary1])}

\* the state at the memory node of a run with this verdict, user and recipient
MemoryEntryState(status, user_id, recipient, metadata) ==
    [run_query(None, None, EmptyDict) EXCEPT
        !.validation_report = [status |-> status],
        !.is_valid          = (status = "PASS"),
        !.user_id           = user_id,
        !.parsed_input      = IF recipient = EmptyDict
                              THEN [primary_request |-> "ask"]
                              ELSE [primary_request |-> "ask", recipient |-> recipient],
        !.constraints       = metadata,
        !.draft             = "d2",
        !.personalized_draft = "p1"]

MemoryInit ==
    /\ \E status \in MemoryStatuses, user_id \in MemoryUserIds,
          recipient \in ParsedRecipients, metadata \in RecipientMetadata :
           state = MemoryEntryState(status, user_id, recipient, metadata)
    /\ pc = "memory"
    /\ trace = <<>>
    /\ lastData \in MemoryInputs
    /\ verdicts = <<>>
    /\ upserts = <<>>
    /\ store \in MemoryStores

\* MemoryAgent.run with the merge output lastData
memory_run ==
    /\ pc = "memory"
    /\ LET out == MemoryAgent_execute(state, lastData, store)
       IN /\ pc' = IF out.result.raises THEN "RAISED" ELSE "returned"
          /\ state' = IF out.result.raises THEN state
                      ELSE MergeUpdate(state, out.result.messages, out.result.updates)
          /\ upserts' = upserts \o out.call
          /\ store' = IF out.call # <<>> /\ ~out.result.raises
                      THEN upsert_summary(store, out.call[1].user_id,
                                          out.call[1].recipient_key, out.call[1].summary)
                      ELSE store
    /\ trace' = Append(trace, "memory")
    /\ UNCHANGED <<lastData, verdicts>>

MemoryNext == memory_run

MemorySpec == MemoryInit /\ [][MemoryNext]_vars

MemoryDone == pc \in {"returned", "RAISED"} /\ trace = <<"memory">>

\* the merge output decodes to an object that has a summary
MergeUsable(content) == content.kind = "object" /\ "summary" \in DOMAIN content.data

\* a field of the recipient is present
Present(x) == x # None /\ x # "" /\ x # "  "

\* the key the recipient should be stored under: the lowercase email, else
\* the hash of (name, org, role) when two of the three are present, else none
ExpectedKey(recipient) ==
    LET low(x) == IF Present(x) THEN Lower(x) ELSE ""
        given == {f \in {"name", "org", "role"} : Present(recipient[f])}
    IN IF Present(recipient.email) THEN <<"email", Lower(recipient.email)>>
       ELSE IF Cardinality(given) >= 2
       THEN <<"hash", low(recipient.name), low(recipient.org), low(recipient.role)>>
       ELSE NoKey

\* the recipient of the run: the parsed recipient under the metadata overlay
RunRecipient ==
    normalize_recipient(Get(state.parsed_input, "recipient", EmptyDict), state.constraints)

\* C17: on a PASS run with a user_id and a usable merge output, the Memory
\* Summarizer calls upsert_summary once with the key derived from the
\* recipient (lowercase email, else the hash of name, org, role when two of
\* them are present), and makes no call when no key is derivable.
C17_KeyDerivedOrSkipped ==
    (MemoryDone /\ Upper(ReportStatus) = "PASS" /\ state.user_id # "" /\ MergeUsable(lastData)) =>
        IF ExpectedKey(RunRecipient) = NoKey
        THEN upserts = <<>> /\ pc = "returned"
        ELSE /\ Len(upserts) = 1
             /\ upserts[1].recipient_key = ExpectedKey(RunRecipient)
             /\ pc = "returned"

\* C18: when the merge output does not decode to an object with a summary,
\* the memory node returns without calling upsert_summary and leaves every
\* stored row as it is.
C18_UnusableMergeSkipsWrite ==
    [][(pc = "memory" /\ ~MergeUsable(lastData)) =>
           (pc' = "returned" /\ upserts' = upserts /\ store' = store)]_vars

C18_Witness ==
    /\ MemoryDone
    /\ ~MergeUsable(lastData)
    /\ Upper(ReportStatus) = "PASS"
    /\ Get(state.parsed_input, "recipient", EmptyDict) # EmptyDict
    /\ ExpectedKey(RunRecipient) = <<"email", "a@x.org">>
    /\ \E r \in store : /\ r.user_id = state.user_id
                        /\ r.recipient_key = <<"email", "a@x.org">>
                        /\ r.summary = Summary0

-----------------------------------------------------------------------------
(* Two runs whose Memory Summarizers work on the same (user_id,             *)
(* recipient_key) at the same time.  A run reads the stored summary        *)
(* (get_past_summary), awaits its generator, and on resuming decodes the   *)
(* merge output and calls upsert_summary; nothing is held between the two. *)
(* Here state[r] is run r's AgentState with the past_summary it read,      *)
(* lastData[r] its merge output, pc[r] "read", "merge" or "done".          *)

Runs == {"run1", "run2"}

\* the state both runs bring to the memory node: PASS, same user and recipient
SharedEntryState ==
    MemoryEntryState("PASS", "u1", Recipient2, [recipient_email |-> "A@X.org"])

SharedKey == compute_recipient_key(normalize_recipient(Recipient2, SharedEntryState.constraints))

\* what run r's email adds to the history
Event(r) == IF r = "run1" THEN "Follow-up sent." ELSE "Apology sent."

\* the merge outputs the generator may give run r for the payload's
\* existing_summary: not JSON, the existing history extended, a fresh summary
MergeOutputs(existing_summary, r) ==
    { Text,
      Object([summary |->
                [relationship |-> "Recruiter",
                 history      |-> Get(existing_summary, "history", <<>>) \o <<Event(r)>>,
                 last_intent  |-> "follow_up",
                 last_tone    |-> "professional"]]),
      Object([summary |->
                [relationship |-> "Recruiter",
                 history      |-> <<Event(r)>>,
                 last_intent  |-> "apology",
                 last_tone    |-> "friendly"]]) }

ConcurrentInit ==
    /\ state = [r \in Runs |-> [agent_state |-> SharedEntryState, past_summary |-> EmptyDict]]
    /\ pc = [r \in Runs |-> "read"]
    /\ trace = <<>>
    /\ lastData = [r \in Runs |-> NoData]
    /\ verdicts = <<>>
    /\ upserts = <<>>
    /\ store \in {{}, {[user_id |-> "u1", recipient_key |-> SharedKey, summary |-> Summary0]}}

\* lines 74-106: resolve the key, load the existing summary, start the
\* generator call (the await)
memory_read(r) ==
    /\ pc[r] = "read"
    /\ state' = [state EXCEPT ![r].past_summary =
                     get_past_summary(store, state[r].agent_state.user_id, SharedKey)]
    /\ pc' = [pc EXCEPT ![r] = "merge"]
    /\ trace' = Append(trace, <<r, "read">>)
    /\ UNCHANGED <<lastData, verdicts, upserts, store>>

\* lines 108-127: the generator has answered; decode and upsert
memory_write(r) ==
    /\ pc[r] = "merge"
    /\ \E content \in MergeOutputs(state[r].past_summary, r) :
           LET out == MemoryAgent_execute(state[r].agent_state, content, store)
           IN /\ lastData' = [lastData EXCEPT ![r] = content]
              /\ upserts' = upserts \o out.call
              /\ store' = IF out.call # <<>> /\ ~out.result.raises
                          THEN upsert_summary(store, out.call[1].user_id,
                                              out.call[1].recipient_key, out.call[1].summary)
                          ELSE store
    /\ pc' = [pc EXCEPT ![r] = "done"]
    /\ trace' = Append(trace, <<r, "write">>)
    /\ UNCHANGED <<state, verdicts>>

ConcurrentNext == \E r \in Runs : memory_read(r) \/ memory_write(r)

ConcurrentSpec == ConcurrentInit /\ [][ConcurrentNext]_vars

\* the rows stored for the key both runs write
SharedRows == {row \in store : row.user_id = "u1" /\ row.recipient_key = SharedKey}

\* C19: with two runs reading and writing the summary of the same
\* (user_id, recipient_key), the store never holds more than one row for the
\* key, and once an upsert_summary has executed the row holds the summary of
\* the upsert_summary that executed last.
C19_LastWriteWins ==
    /\ Cardinality(SharedRows) <= 1
    /\ upserts # <<>> =>
           /\ Last(upserts).recipient_key = SharedKey
           /\ SharedRows = {[user_id |-> "u1", recipient_key |-> SharedKey,
                             summary |-> Last(upserts).summary]}

\* both runs read the stored summary before either wrote (no lock is held
\* from read to write), both wrote, and the row is the second write, which
\* lacks what the first write added
C19_Witness ==
    /\ \A r \in Runs : pc[r] = "done" /\ state[r].past_summary = Summary0
    /\ SubSeq(trace, 1, 2) \in {<< <<"run1", "read">>, <<"run2", "read">> >>,
                                << <<"run2", "read">>, <<"run1", "read">> >>}
    /\ Len(upserts) = 2
    /\ \E row \in SharedRows :
           /\ row.summary = upserts[2].summary
           /\ \E n \in 1..Len(upserts[1].summary.history) :
                  ~InSeq(upserts[1].summary.history[n], row.summary.history)

-----------------------------------------------------------------------------
(* The Intent Detector on its own: one _execute call on the state run_query *)
(* builds from the UI's intent choice.  lastData is the output of the       *)
(* generator call the node made, NoData when it made none.                  *)

\* the intent argument of run_query
UiIntentChoices ==
    { None, "", "  ", "auto", "Auto", "AUTO", " Auto ", "(auto)", "(AUTO)", "none", "None",
      "NONE", "apology", " apology ", "follow up", "Follow Up", "bogus",
      "follow-up", "followup", "requesting", "asking" }

IntentInit ==
    /\ \E tone \in RunTones, intent \in UiIntentChoices, metadata \in RunMetadata :
           state = run_query(tone, intent, metadata)
    /\ pc = "intent_detection"
    /\ trace = <<>>
    /\ lastData = NoData
    /\ verdicts = <<>>
    /\ upserts = <<>>
    /\ store = {}

IntentReturn(res) ==
    /\ pc' = IF res.raises THEN "RAISED" ELSE "returned"
    /\ state' = IF res.raises THEN state ELSE MergeUpdate(state, res.messages, res.updates)
    /\ trace' = Append(trace, "intent_detection")
    /\ UNCHANGED <<verdicts, upserts, store>>

\* IntentDetectionAgent.run: the override path returns before the generator
\* is invoked; the model path invokes it and decodes its output
intent_run ==
    /\ pc = "intent_detection"
    /\ IF UiIntent(state) # ""
       THEN /\ IntentReturn(IntentDetectionAgent_execute(state, NoData))
            /\ lastData' = NoData
       ELSE \E content \in IntentContents :
                /\ IntentReturn(IntentDetectionAgent_execute(state, content))
                /\ lastData' = content

IntentNext == intent_run

IntentSpec == IntentInit /\ [][IntentNext]_vars

IntentDone == pc \in {"returned", "RAISED"} /\ trace = <<"intent_detection">>

\* the sentinels in the letter cases the UI may send
SentinelSpellings == {"auto", "Auto", "AUTO", "(auto)", "(AUTO)", "none", "None", "NONE"}

\* C20: when user_intent_override is non-empty and not a sentinel (auto,
\* (auto), none in any letter case) the Intent Detector returns the override
\* as intent with intent_confidence 1.0 and intent_source "ui" and makes no
\* generator call; when it is empty or a sentinel the generator is called.
C20_OverrideBypassesGenerator ==
    IntentDone =>
        IF state.user_intent_override # "" /\ state.user_intent_override \notin SentinelSpellings
        THEN /\ pc = "returned"
             /\ state.intent = state.user_intent_override
             /\ state.intent_confidence = 100
             /\ state.intent_source = "ui"
             /\ lastData = NoData
        ELSE /\ lastData \in IntentContents
             /\ state.intent_source # "ui"

C20_Witness ==
    /\ IntentDone
    /\ state.user_intent_override = "apology"
    /\ state.intent = "apology"
    /\ state.intent_source = "ui"
    /\ lastData = NoData

\* the closed enumeration of intent labels
IntentLabels ==
    {"outreach", "follow_up", "apology", "info", "request", "thank_you", "scheduling", "other"}

\* C21: once the Intent Detector has returned, intent is one of the eight
\* labels, whichever path (UI override, model, soft-failure default) set it.
C21_IntentInClosedSet ==
    (IntentDone /\ pc = "returned") => state.intent \in IntentLabels

\* C32: on the UI override path the aliases are normalised before intent is
\* set: "follow up", "follow-up" and "followup" give "follow_up",
\* "requesting" and "asking" give "request".
C32_OverrideAliasNormalized ==
    (IntentDone /\ pc = "returned") =>
        /\ state.user_intent_override \in {"follow up", "follow-up", "followup"}
               => state.intent = "follow_up"
        /\ state.user_intent_override \in {"requesting", "asking"}
               => state.intent = "request"

\* the generator was called: the model path
ModelPath == IntentDone /\ lastData # NoData

\* C33: on the model path, for every output that parses, intent_confidence
\* is within [0,1] (0.0 when it is no number), a label outside the eight
\* labels after lowercasing and alias mapping becomes "other" with confidence
\* at most 0.4, and intent_source is "model"; for an output that does not
\* parse the result is intent "other", confidence 0.0, source "default".
C33_ModelPathNormalized ==
    ModelPath =>
        IF ~JsonOk(lastData)
        THEN /\ pc = "returned"
             /\ state.intent = "other"
             /\ state.intent_confidence = 0
             /\ state.intent_source = "default"
        ELSE /\ pc = "returned"
             /\ state.intent_source = "model"
             /\ state.intent_confidence \in 0..100
             /\ state.intent \in IntentLabels
             /\ "confidence" \notin DOMAIN lastData.data => state.intent_confidence = 0
             /\ lastData.data.intent = "bogus" =>
                    (state.intent = "other" /\ state.intent_confidence <= 40)
             /\ lastData.data.intent = "Follow Up" =>
                    (state.intent = "follow_up" /\ state.intent_confidence = 100)
             /\ lastData.data.intent = "asking" =>
                    (state.intent = "request" /\ state.intent_confidence = 0)

-----------------------------------------------------------------------------
(* The template engine on its own: get_best_template and build_plan applied  *)
(* to every store, intent, tone_params, constraints and parsed_input below.  *)
(* Here `store` is the email_templates table, `state` holds the keyword      *)
(* arguments of build_plan, `trace` the calls made, `lastData` the values    *)
(* they returned, in order, and `upserts` the arguments and the table as     *)
(* they were before the first call.                                          *)

\* a body stored with upsert_template that names a placeholder build_plan has
\* no value for
DeadlineBody ==
    << "Subject: ", "{{subject}}", "\n\n", "{{greeting}}", "\n\nBy ", "{{deadline}}", ": ",
       "{{ask}}", "\n\n", "{{closing}}", "\n", "{{signature}}", "\n" >>

\* rows at the four keys get_best_template tries for ("apology", "formal")
PlanRowUniverse ==
    { [template_id |-> "apology_formal_v1", intent |-> "apology", tone_label |-> "formal",
       body |-> ApologyBody],
      [template_id |-> "apology_neutral_v1", intent |-> "apology", tone_label |-> "neutral",
       body |-> ApologyBody],
      [template_id |-> "other_formal_v1", intent |-> "other", tone_label |-> "formal",
       body |-> DeadlineBody],
      [template_id |-> "other_neutral_v1", intent |-> "other", tone_label |-> "neutral",
       body |-> DefaultBody] }

\* the tables: every subset of the four rows, and the seeded fixtures
PlanStores == (SUBSET PlanRowUniverse) \cup {TemplateRows}

PlanIntents == {"apology", "other", "request"}

PlanToneParams ==
    { EmptyDict, [tone_label |-> None], [tone_label |-> "  "],
      [tone_label |-> "formal"], [tone_label |-> "concise"] }

PlanConstraints ==
    { EmptyDict, [length |-> None], [length |-> "  "], [length |-> " Short "],
      [length |-> "tiny"], [length |-> "very_short"], [length |-> "concise"],
      [length |-> "LONG"], [length |-> "detailed"], [length |-> "medium"],
      [length |-> "huge"] }

PlanParsedInputs ==
    { EmptyDict,
      [primary_request |-> "", recipient |-> EmptyDict, context |-> None, ask |-> ""],
      [primary_request |-> LongRequest, recipient |-> [name |-> "Sam"],
       context |-> "see {{ask}}", ask |-> "re {{subject}}"] }

\* mutant: the call normalises the caller's tone_params in place
build_plan_call_writes_tone_label(rows, args) ==
    [ plan |-> build_plan(rows, args.intent, args.tone_params, args.constraints, args.parsed_input),
      rows |-> rows,
      args |-> [args EXCEPT !.tone_params = Put(@, "tone_label", plan_tone_label(@))] ]

\* one call of build_plan: the plan returned, and the table and the
\* arguments as the call leaves them (it assigns to neither)
build_plan_call(rows, args) ==
    [ plan |-> build_plan(rows, args.intent, args.tone_params, args.constraints, args.parsed_input),
      rows |-> rows,
      args |-> args ]

PlanInit ==
    /\ store \in PlanStores
    /\ \E i \in PlanIntents, tp \in PlanToneParams, c \in PlanConstraints, pi \in PlanParsedInputs :
           state = [intent |-> i, tone_params |-> tp, constraints |-> c, parsed_input |-> pi]
    /\ upserts = <<[args |-> state, rows |-> store]>>
    /\ pc = "lookup"
    /\ trace = <<>>
    /\ lastData = <<>>
    /\ verdicts = <<>>

\* store.get_best_template(intent=..., tone_label=...)
template_lookup ==
    /\ pc = "lookup"
    /\ lastData' = Append(lastData,
                          get_best_template(store, state.intent, plan_tone_label(state.tone_params)))
    /\ trace' = Append(trace, "get_best_template")
    /\ pc' = "first_call"
    /\ UNCHANGED <<state, verdicts, upserts, store>>

\* engine.build_plan(...), called twice in a row with the same arguments
plan_call ==
    /\ pc \in {"first_call", "second_call"}
    /\ LET r == build_plan_call(store, state)
       IN /\ lastData' = Append(lastData, r.plan)
          /\ store' = r.rows
          /\ state' = r.args
    /\ trace' = Append(trace, "build_plan")
    /\ pc' = IF pc = "first_call" THEN "second_call" ELSE "returned"
    /\ UNCHANGED <<verdicts, upserts>>

PlanNext == template_lookup \/ plan_call

PlanSpec == PlanInit /\ [][PlanNext]_vars

\* the tone label the lookup and the plan were asked for, read off the inputs
AskedTone ==
    LET given == Get(state.tone_params, "tone_label", None)
    IN IF given \in {None, "", "  "} THEN "neutral" ELSE given

\* the rows of the table at one key
Tier(i, t) == {r \in store : r.intent = i /\ r.tone_label = t}

LookupDone == Len(lastData) >= 1

\* C23: get_best_template returns the template stored under the first
\* populated key in the order (intent, tone), (intent, "neutral"),
\* ("other", tone), ("other", "neutral"), and null only when none of the four
\* keys is populated.
C23_FirstPopulatedTierWins ==
    LookupDone =>
        LET i == state.intent
            t == AskedTone
            found == lastData[1]
        IN /\ Tier(i, t) # {} => found \in Tier(i, t)
           /\ (Tier(i, t) = {} /\ Tier(i, "neutral") # {}) => found \in Tier(i, "neutral")
           /\ (Tier(i, t) = {} /\ Tier(i, "neutral") = {} /\ Tier("other", t) # {})
                  => found \in Tier("other", t)
           /\ (Tier(i, t) = {} /\ Tier(i, "neutral") = {} /\ Tier("other", t) = {}
                  /\ Tier("other", "neutral") # {})
                  => found \in Tier("other", "neutral")
           /\ found = NoTemplate <=>
                  (Tier(i, t) \cup Tier(i, "neutral") \cup Tier("other", t)
                       \cup Tier("other", "neutral") = {})

\* four distinct keys, the second and third tier populated, the first not:
\* the second tier's template is returned
C23_Witness ==
    /\ LookupDone
    /\ state.intent = "apology" /\ AskedTone = "formal"
    /\ Tier("apology", "formal") = {}
    /\ Tier("apology", "neutral") # {} /\ Tier("other", "formal") # {}
    /\ lastData[1].template_id = "apology_neutral_v1"

\* the plans build_plan has returned so far
PlansReturned == {lastData[n] : n \in 2..Len(lastData)}

\* C24: length_budget is (target_words, max_words, max_paragraphs,
\* max_bullets) = (70, 100, 3, 3) for the hints very_short and tiny,
\* (110, 160, 4, 4) for short and concise, (220, 320, 6, 6) for long and
\* detailed, (160, 240, 5, 5) for every other hint, medium included; and
\* format.max_bullets is length_budget.max_bullets.
C24_LengthBudgetTable ==
    \A plan \in PlansReturned :
        LET b == plan.length_budget
            row == <<b.target_words, b.max_words, b.max_paragraphs, b.max_bullets>>
        IN /\ plan.length_hint \in {"very_short", "tiny"} => row = <<70, 100, 3, 3>>
           /\ plan.length_hint \in {"short", "concise"} => row = <<110, 160, 4, 4>>
           /\ plan.length_hint \in {"long", "detailed"} => row = <<220, 320, 6, 6>>
           /\ plan.length_hint \notin {"very_short", "tiny", "short", "concise", "long", "detailed"}
                  => row = <<160, 240, 5, 5>>
           /\ plan.format.max_bullets = b.max_bullets

\* a plan for the hint "concise"
C24_Witness ==
    /\ pc = "returned"
    /\ state.constraints = [length |-> "concise"]
    /\ lastData[2].length_hint = "concise"
    /\ lastData[2].length_budget.max_words = 160
    /\ lastData[2].format.max_bullets = 4

\* constraints.length as asked for, lowercased and stripped, "" when absent
\* or blank, read off the inputs
AskedLength ==
    LET given == Get(state.constraints, "length", None)
    IN CASE given \in {None, "", "  "} -> ""
         [] given = " Short "          -> "short"
         [] given = "LONG"             -> "long"
         [] OTHER                      -> given

\* C25: the length hint is constraints.length, lowercased, when that is not
\* blank; otherwise "short" when the tone label is "concise" and "medium"
\* for every other tone label; the tone label is "neutral" when tone_params
\* has none or a blank one.
C25_LengthHintResolution ==
    \A plan \in PlansReturned :
        /\ plan.tone_label = AskedTone
        /\ (Get(state.tone_params, "tone_label", None) \in {None, "", "  "})
               => plan.tone_label = "neutral"
        /\ AskedLength # "" => plan.length_hint = AskedLength
        /\ (AskedLength = "" /\ AskedTone = "concise") => plan.length_hint = "short"
        /\ (AskedLength = "" /\ AskedTone # "concise") => plan.length_hint = "medium"

\* an explicit length with the tone "concise": the explicit length wins
C25_Witness ==
    /\ pc = "returned"
    /\ state.tone_params = [tone_label |-> "concise"]
    /\ state.constraints = [length |-> "LONG"]
    /\ lastData[2].length_hint = "long"

PlaceholderTokens ==
    { "{{subject}}", "{{greeting}}", "{{context}}", "{{ask}}", "{{closing}}", "{{signature}}",
      "{{deadline}}" }

\* C39: rendering replaces every placeholder of the template body, a
\* placeholder without a value rendering as the empty string, so that no
\* placeholder token is left in rendered_skeleton.
C39_NoPlaceholderLeft ==
    \A plan \in PlansReturned :
        \A i \in 1..Len(plan.rendered_skeleton) :
            plan.rendered_skeleton[i] \notin PlaceholderTokens

-----------------------------------------------------------------------------
(* apply_revision_hints_node on its own: applied, up to twice in a row, to   *)
(* states whose validation_report carries (or lacks) a constraint_resolution.*)
(* `upserts` records the state each application started from.                *)

HintsConstraints ==
    { EmptyDict,
      [must_include |-> <<"b">>],
      [must_avoid |-> <<"c", "e">>],
      [must_include |-> <<"a", "b", "a">>, must_avoid |-> <<"c">>, length |-> "short"] }

HintsToneParams == {EmptyDict, [tone_label |-> "formal", formality |-> 70]}

HintsResolutions ==
    { EmptyDict, Resolution1, Resolution2,
      [drop_must_include |-> <<"b">>],
      [add_must_avoid |-> <<"e", "c">>],
      [override_tone_label |-> "  "],
      [drop_must_include |-> <<"a">>, override_tone_label |-> None] }

\* the reports a FAIL verdict can leave: without the key, or carrying a resolution
HintsReports ==
    {[status |-> "FAIL"]}
        \cup {[status |-> "FAIL", constraint_resolution |-> r] : r \in HintsResolutions}

HintsInit ==
    /\ \E c \in HintsConstraints, tp \in HintsToneParams, report \in HintsReports :
           state = [run_query(None, None, EmptyDict) EXCEPT
                        !.constraints = c, !.tone_params = tp,
                        !.validation_report = report, !.retry_count = 1]
    /\ pc = "apply_revision_hints"
    /\ trace = <<>>
    /\ lastData = NoData
    /\ verdicts = <<>>
    /\ upserts = <<>>
    /\ store = {}

\* the node, its update merged into the state
hints_apply ==
    /\ pc = "apply_revision_hints"
    /\ state' = MergeUpdate(state, <<>>, apply_revision_hints_node(state))
    /\ upserts' = Append(upserts, state)
    /\ trace' = Append(trace, "apply_revision_hints")
    /\ pc' = "applied"
    /\ UNCHANGED <<lastData, verdicts, store>>

\* a later retry: the report of the next FAIL verdict is in the state
hints_next_report ==
    /\ pc = "applied"
    /\ Len(trace) < 2
    /\ \E report \in HintsReports : state' = [state EXCEPT !.validation_report = report]
    /\ pc' = "apply_revision_hints"
    /\ UNCHANGED <<trace, lastData, verdicts, upserts, store>>

HintsNext == hints_apply \/ hints_next_report

HintsSpec == HintsInit /\ [][HintsNext]_vars

\* the elements of a sequence
Elems(s) == {s[i] : i \in 1..Len(s)}

\* the first position of x in s
FirstIndex(x, s) == CHOOSE i \in 1..Len(s) : s[i] = x /\ \A j \in 1..(i - 1) : s[j] # x

\* t is s with duplicates removed, first occurrences kept in order
IsDedupOf(t, s) ==
    /\ Elems(t) = Elems(s)
    /\ \A i, j \in 1..Len(t) : i < j => FirstIndex(t[i], s) < FirstIndex(t[j], s)

\* t is s without the items of drop, order (and repetitions) kept
RECURSIVE IsWithout(_, _, _)
IsWithout(t, s, drop) ==
    IF s = <<>> THEN t = <<>>
    ELSE IF Head(s) \in Elems(drop) THEN IsWithout(t, Tail(s), drop)
    ELSE t # <<>> /\ Head(t) = Head(s) /\ IsWithout(Tail(t), Tail(s), drop)

\* C31: apply_revision_hints, given a constraint_resolution, yields
\* must_include = the current must_include without the dropped items (order
\* kept), must_avoid = the current must_avoid followed by the added items,
\* duplicates removed, first occurrences in order, and tone_label = the
\* trimmed override when that is a non-blank string; it works from the
\* current constraints; with an empty or absent constraint_resolution it
\* changes nothing; and it changes no field but constraints and tone_params.
C31_ApplyRevisionHints ==
    pc = "applied" =>
        LET before == Last(upserts)
            res    == Get(before.validation_report, "constraint_resolution", EmptyDict)
            drop   == Get(res, "drop_must_include", <<>>)
            add    == Get(res, "add_must_avoid", <<>>)
            tone   == Get(res, "override_tone_label", None)
            cb     == before.constraints
            ca     == state.constraints
        IN /\ res = EmptyDict => state = before
           /\ \A f \in DOMAIN state \ {"constraints", "tone_params"} : state[f] = before[f]
           /\ "must_include" \in DOMAIN cb =>
                  IsWithout(ca.must_include, cb.must_include, drop)
           /\ "must_include" \notin DOMAIN cb => "must_include" \notin DOMAIN ca
           /\ add # <<>> => IsDedupOf(ca.must_avoid, Get(cb, "must_avoid", <<>>) \o add)
           /\ add = <<>> => Get(ca, "must_avoid", <<>>) = Get(cb, "must_avoid", <<>>)
           /\ \A k \in DOMAIN cb \ {"must_include", "must_avoid"} :
                  k \in DOMAIN ca /\ ca[k] = cb[k]
           /\ tone = " warm " => state.tone_params.tone_label = "warm"
           /\ tone \in {None, "", "  "} => state.tone_params = before.tone_params
           /\ \A k \in DOMAIN before.tone_params \ {"tone_label"} :
                  state.tone_params[k] = before.tone_params[k]

\* a second application, on constraints the first one had already edited:
\* the item added to must_avoid by the first is still there after the second
C31_Witness ==
    /\ pc = "applied"
    /\ Len(upserts) = 2
    /\ upserts[1].constraints = [must_include |-> <<"a", "b", "a">>, must_avoid |-> <<"c">>,
                                 length |-> "short"]
    /\ Get(upserts[1].validation_report, "constraint_resolution", EmptyDict) = Resolution1
    /\ Get(upserts[2].validation_report, "constraint_resolution", EmptyDict)
           = [add_must_avoid |-> <<"e", "c">>]
    /\ state.constraints.must_include = <<"b">>
    /\ state.constraints.must_avoid = <<"c", "d", "e">>
    /\ state.tone_params.tone_label = "warm"

-----------------------------------------------------------------------------
(* The Tone Stylist on its own: one run of the node on the state a run       *)
(* enters it with, for every tone argument of run_query below.  `upserts`    *)
(* records the tone argument and the state at entry, `lastData` the content  *)
(* of the generator call the node made, NoData when it made none.            *)

\* the tone argument of run_query
UiToneChoices ==
    { None, "", "  ", "(auto)", "(AUTO)", "auto", "Auto", "AUTO", "none", "None", "NONE",
      "formal", " formal ", "Formal", "concise" }

\* the state after Input Parser and Intent Detector, which ran on these outputs
ToneEntryState(tone, intent, metadata, parsed, detected) ==
    LET s0 == run_query(tone, intent, metadata)
        r1 == InputParsingAgent_execute(s0, parsed)
        s1 == MergeUpdate(s0, r1.messages, r1.updates)
        r2 == IntentDetectionAgent_execute(s1, detected)
    IN MergeUpdate(s1, r2.messages, r2.updates)

\* Input Parser outputs after which the run goes on
ToneParsed == {c \in InputParserContents : IsObject(c) /\ ~Get(c.data, "requires_clarification", FALSE)}

\* Intent Detector outputs on which it returns
ToneDetected == {c \in IntentContents : c # NonObject}

ToneInit ==
    /\ \E tone \in UiToneChoices, intent \in RunIntents, metadata \in RunMetadata,
          parsed \in ToneParsed, detected \in ToneDetected :
           /\ state = ToneEntryState(tone, intent, metadata, parsed, detected)
           /\ upserts = <<[tone |-> tone, entry |-> state]>>
    /\ pc = "tone_stylist"
    /\ trace = <<"input_parser", "intent_detection">>
    /\ lastData = NoData
    /\ verdicts = <<>>
    /\ store = {}

ToneReturn(res) ==
    /\ pc' = IF res.raises THEN "RAISED" ELSE "returned"
    /\ state' = IF res.raises THEN state ELSE MergeUpdate(state, res.messages, res.updates)
    /\ trace' = Append(trace, "tone_stylist")
    /\ UNCHANGED <<verdicts, upserts, store>>

\* ToneStylistAgent.run: the override path returns before the generator is
\* invoked; the model path invokes it and decodes its output
tone_run ==
    /\ pc = "tone_stylist"
    /\ IF UiToneLabel(state) # ""
       THEN /\ ToneReturn(ToneStylistAgent_execute(state, NoData))
            /\ lastData' = NoData
       ELSE \E content \in ToneContents :
                /\ ToneReturn(ToneStylistAgent_execute(state, content))
                /\ lastData' = content

ToneNext == tone_run

ToneSpec == ToneInit /\ [][ToneNext]_vars

ToneDone == pc \in {"returned", "RAISED"} /\ Last(trace) = "tone_stylist"

\* the tone argument without surrounding blanks, "" for no tone or a sentinel
AskedToneArgument ==
    LET tone == upserts[1].tone
    IN CASE tone \in {None, "", "  "} -> ""
         [] tone \in {"(auto)", "(AUTO)", "auto", "Auto", "AUTO", "none", "None", "NONE"} -> ""
         [] tone = " formal " -> "formal"
         [] OTHER -> tone

\* C34: given a tone that is no sentinel, the state enters the Tone Stylist
\* with that tone as tone_params.tone_label, and the Tone Stylist returns
\* tone_params unchanged with tone_source "ui" and calls no generator; given
\* a sentinel or no tone, tone_params starts empty and the generator is
\* called.
C34_ToneOverrideBypassesGenerator ==
    ToneDone =>
        LET entry == upserts[1].entry
        IN IF AskedToneArgument # ""
           THEN /\ entry.tone_params = [tone_label |-> AskedToneArgument]
                /\ pc = "returned"
                /\ state.tone_params = entry.tone_params
                /\ state.tone_source = "ui"
                /\ lastData = NoData
           ELSE /\ entry.tone_params = EmptyDict
                /\ lastData \in ToneContents

C34_Witness ==
    /\ ToneDone
    /\ upserts[1].tone = "Formal"
    /\ state.tone_params = [tone_label |-> "Formal"]
    /\ state.tone_source = "ui"
    /\ lastData = NoData

\* the generator was called: the model path of the Tone Stylist
ToneModelPath == ToneDone /\ lastData # NoData

\* C35: on the model path the Tone Stylist always emits tone_params in
\* range: formality, warmth and directness within [0,100], confidence within
\* [0,1]; and for an output that does not parse or whose tone_params is empty
\* it emits the default neutral tone (neutral, 70, 45, 65, 0.3) with
\* tone_source "default".
C35_ToneModelPathInRange ==
    ToneModelPath =>
        IF ~JsonOk(lastData)
           \/ (IsObject(lastData) /\ Get(lastData.data, "tone_params", EmptyDict) = EmptyDict)
        THEN /\ pc = "returned"
             /\ state.tone_params = [ tone_label |-> "neutral", formality |-> 70, warmth |-> 45,
                                      directness |-> 65, confidence |-> 30 ]
             /\ state.tone_source = "default"
        ELSE /\ pc = "returned"
             /\ state.tone_source = "model"
             /\ state.tone_params.formality \in 0..100
             /\ state.tone_params.warmth \in 0..100
             /\ state.tone_params.directness \in 0..100
             /\ state.tone_params.confidence \in 0..100

-----------------------------------------------------------------------------
(* The Input Parser on its own: the first step of a run, for every initial   *)
(* state and every generator output.  `lastData` records the output.         *)

ParserInit ==
    /\ \E tone \in UiToneChoices, intent \in RunIntents, metadata \in RunMetadata :
           state = run_query(tone, intent, metadata)
    /\ pc = "input_parser"
    /\ trace = <<>>
    /\ lastData = NoData
    /\ verdicts = <<>>
    /\ upserts = <<>>
    /\ store = {}

\* the node and its conditional edge
parser_run ==
    /\ \E content \in InputParserContents :
           /\ Step("input_parser", InputParsingAgent_execute(state, content))
           /\ lastData' = content
    /\ UNCHANGED <<verdicts, upserts, store>>

ParserNext == parser_run

ParserSpec == ParserInit /\ [][ParserNext]_vars

\* C36: when the output of the Input Parser's generator cannot be parsed,
\* the node returns requires_clarification true, parsed_input {},
\* constraints {} and at least one clarification question, and the run is
\* then at END with nothing drafted.
C36_ParseFailureAsksAndEnds ==
    (trace = <<"input_parser">> /\ ~JsonOk(lastData)) =>
        /\ state.requires_clarification
        /\ state.parsed_input = EmptyDict
        /\ state.constraints = EmptyDict
        /\ Len(state.validation_report.questions) >= 1
        /\ pc = "END"
        /\ state.draft = "" /\ state.personalized_draft = ""

\* a parse failure on a state that carried constraints from run()
C36_Witness ==
    /\ trace = <<"input_parser">>
    /\ lastData = Text
    /\ state.user_id = "u1"
    /\ state.requires_clarification
    /\ pc = "END"

-----------------------------------------------------------------------------
(* The Personalizer on its own: one run of the node, for every entry state   *)
(* and generator output below.  `store` is the email_summaries table,        *)
(* `upserts` records the state at entry, `verdicts` the payload sent to the  *)
(* generator (empty when no call was made), `lastData` the generator output. *)

\* (draft, personalized_draft) as the Draft Writer and an earlier Personalizer
\* execution leave them: both stripped
PersonalizerDrafts ==
    { <<"", "">>, <<"d1", "">>, <<"d2", "p1">>, <<"", "p1">> }

PersonalizerStores ==
    { {},
      { [user_id |-> "u1", recipient_key |-> <<"hash", "alice", "", "cto">>, summary |-> Summary0] } }

PersonalizerEntryState(user_id, recipient, drafts) ==
    [run_query(None, None, EmptyDict) EXCEPT
        !.user_id            = user_id,
        !.parsed_input       = IF recipient = EmptyDict
                               THEN [primary_request |-> "ask"]
                               ELSE [primary_request |-> "ask", recipient |-> recipient],
        !.intent             = "follow_up",
        !.draft              = drafts[1],
        !.personalized_draft = drafts[2]]

PersonalizerInit ==
    /\ \E user_id \in {"default", "u1"}, recipient \in ParsedRecipients,
          drafts \in PersonalizerDrafts :
           state = PersonalizerEntryState(user_id, recipient, drafts)
    /\ upserts = <<state>>
    /\ pc = "personalization"
    /\ trace = <<>>
    /\ lastData = NoData
    /\ verdicts = <<>>
    /\ store \in PersonalizerStores

PersonalizerReturn(res) ==
    /\ pc' = IF res.raises THEN "RAISED" ELSE "returned"
    /\ state' = IF res.raises THEN state ELSE MergeUpdate(state, res.messages, res.updates)
    /\ trace' = Append(trace, "personalization")
    /\ UNCHANGED <<upserts, store>>

\* PersonalizationAgent.run: with no draft it returns before the generator is
\* invoked; otherwise it sends the payload and decodes the output
personalizer_run ==
    /\ pc = "personalization"
    /\ IF PersonalizerDraft(state) = ""
       THEN /\ PersonalizerReturn(PersonalizationAgent_execute(state, NoData))
            /\ lastData' = NoData
            /\ verdicts' = <<>>
       ELSE \E content \in PersonalizerContents :
                /\ PersonalizerReturn(PersonalizationAgent_execute(state, content))
                /\ lastData' = content
                /\ verdicts' = <<PersonalizerPayload(state)>>

PersonalizerNext == personalizer_run

PersonalizerSpec == PersonalizerInit /\ [][PersonalizerNext]_vars

PersonalizerDone == pc \in {"returned", "RAISED"} /\ trace = <<"personalization">>

\* the draft the node received: personalized_draft once set, draft otherwise
ReceivedDraft ==
    IF upserts[1].personalized_draft # "" THEN upserts[1].personalized_draft
    ELSE upserts[1].draft

\* C37: when the Personalizer's generator output cannot be parsed, or parses
\* with an empty personalized_draft, the node returns personalized_draft
\* equal to the draft it received, and on the parse failure memory_updates
\* {}; with no draft in the state it returns an empty personalized_draft and
\* calls no generator.
C37_PersonalizerFailSoft ==
    PersonalizerDone =>
        /\ ReceivedDraft = "" =>
               (pc = "returned" /\ state.personalized_draft = "" /\ lastData = NoData)
        /\ ReceivedDraft # "" => lastData \in PersonalizerContents
        /\ lastData = Text =>
               /\ pc = "returned"
               /\ state.personalized_draft = ReceivedDraft
               /\ state.memory_updates = EmptyDict
        /\ (lastData.kind = "object"
                /\ Get(lastData.data, "personalized_draft", None) \in {None, "", "  "}) =>
               (pc = "returned" /\ state.personalized_draft = ReceivedDraft)

\* unparsable output on a retry: the text received is handed back
C37_Witness ==
    /\ PersonalizerDone
    /\ lastData = Text
    /\ upserts[1].draft = "d2" /\ upserts[1].personalized_draft = "p1"
    /\ state.personalized_draft = "p1"
    /\ state.memory_updates = EmptyDict

\* C38: the payload the Personalizer sends to the generator carries, as
\* past_summary, the summary stored for (user_id, recipient key of the parsed
\* recipient).
C38_PayloadCarriesPastSummary ==
    (PersonalizerDone /\ verdicts # <<>>) =>
        /\ "past_summary" \in DOMAIN verdicts[1]
        /\ verdicts[1].past_summary =
               get_past_summary(store, upserts[1].user_id,
                   compute_recipient_key(
                       normalize_recipient(Get(upserts[1].parsed_input, "recipient", EmptyDict),
                                           upserts[1].constraints)))

====
